---- MODULE Spec2Model ----
(***************************************************************************)
(* The resumable, concurrent benchmark orchestrator of                     *)
(* pipeline-benchmarking: RateLimiter, _execute_with_retry,                *)
(* CheckpointManager and the run loops of SinglePipelineRunner             *)
(* ("benchmark" mode) and ParallelComparisonRunner ("compare" mode).       *)
(*                                                                         *)
(* Time is counted in whole seconds and kept as timers: the time since     *)
(* last_call_time was written and the time each sleeping thread still has  *)
(* to sleep.  One process constructs one CheckpointManager and one runner  *)
(* and calls run once; an interrupted or finished process is followed by a *)
(* new process on the same checkpoint file.                                *)
(***************************************************************************)
EXTENDS Integers, Sequences, FiniteSets, TLC

\* ------------------------------------------------------------------ bounds
\* Longest test-case list handed to run, and the number of sense ids.
MaxCases == 2
\* Processes (runs) started one after the other on the same checkpoint file.
MaxRuns == 2
\* Largest max_retries argument tried on _execute_with_retry alone.
MaxRetriesArg == 4
\* Calls of wait_if_needed made on one rate limiter taken alone.
MaxAcquires == 4
\* Calls of save made on one CheckpointManager taken alone.
MaxSaves == 2

\* ------------------------------------------------------- program constants
\* max_retries as the runners pass it to _execute_with_retry.
RunnerMaxRetries == 3
\* ComparisonConfig.checkpoint_interval and rate_limit_per_minute when not
\* given (compare_pipelines.py never gives them).
DefaultCheckpointInterval == 10
DefaultRateLimit == 60

None == "None"
\* An absent optional value (error is None, a metadata key is not there, no
\* result yet); a value that is there is a non-empty tuple or a record.
Absent == <<>>
\* The None a Python function returns when it falls off its end.
NoneValue == [is_none |-> TRUE]
\* end_time - start_time of a run, a positive float the model does not follow.
TotalTime == "total_time"

Sides == {"new", "old"}
SenseIds == 1..MaxCases
Words == {"w1", "w2"}
Modes == {"benchmark", "compare"}
WorkerChoices == {1, 2}
\* --workers, --checkpoint-interval and --rate-limit as tried here
IntervalChoices == {1, 2, DefaultCheckpointInterval}
RateChoices == {0, DefaultRateLimit}
LimiterRates == {0, 20, 30, 60}

\* config.TestCase (gold_labels left at its default)
TestCases == [entry_ref : {"e"}, sense_id : SenseIds, word : Words, pos : {"n"}]

\* What one call of PipelineExecutor.execute does: return a result without
\* error (two quotations, or none), return a result with error set, or raise.
CallKinds == {"ok2", "ok0", "err", "raise"}
\* A variant of FailKinds: only a call that raises has failed.
FailKindsRaiseOnly == {"raise"}
FailKinds == {"err", "raise"}
\* DeepsetPipelineExecutor.execute catches what it raises: the calls of a run
\* return, with or without error.
RunKinds == {"ok2", "err"}

VARIABLES
    \* configuration of the process (ComparisonConfig and the runner class)
    mode, parallel_workers, checkpoint_interval, calls_per_minute, max_retries,
    \* RateLimiter: time.time() - last_call_time, counted up to min_interval
    \* (wait_if_needed does not tell larger values apart), and the lock
    since_last_call, lock,
    \* CheckpointManager: the checkpoint file and self.results
    file, cm_results,
    \* run(): the main thread
    pc, test_cases, remaining, all_results, returned,
    \* the futures of the pool, one per remaining test case
    task,
    \* _execute_with_retry, one per task and side
    call,
    \* bookkeeping of the process: the calls of wait_if_needed, of execute and
    \* of save; the writes of last_call_time, each with the time since the
    \* write before it (gaps); the write each wait_if_needed read (seen)
    n_acquire, n_execute, n_save, gaps, seen,
    \* the processes started so far on this checkpoint file, how the previous
    \* one ended ("returned" or "interrupted", None in the first process) and
    \* whether it was given the test cases this process is given
    runs, prev_how, same_cases,
    \* CheckpointManager taken alone: the lists handed to save so far
    save_args,
    \* the checkpoint files of earlier run identities in the checkpoint
    \* directory, oldest first
    checkpoint_dir,
    \* as_completed taken alone: the futures in the order they finished, with
    \* a 0 where as_completed was called
    finished,
    \* DeepsetPipelineExecutor.execute taken alone: what session.post brings
    \* back, and the PipelineResult execute returns for it
    response, executed

vars == <<mode, parallel_workers, checkpoint_interval, calls_per_minute,
          max_retries, since_last_call, lock, file, cm_results, pc,
          test_cases, remaining, all_results, returned, task, call,
          n_acquire, n_execute, n_save, gaps, seen, runs, prev_how,
          same_cases, save_args, checkpoint_dir, finished, response,
          executed>>

config_vars == <<mode, parallel_workers, checkpoint_interval,
                 calls_per_minute, max_retries>>
store_vars == <<file, cm_results>>
main_vars == <<pc, test_cases, remaining, all_results, returned>>
limiter_vars == <<since_last_call, lock, gaps, seen>>
count_vars == <<n_acquire, n_execute, n_save>>
hist_vars == <<runs, prev_how, same_cases, save_args, checkpoint_dir,
               finished, response, executed>>

\* ----------------------------------------------------------------- helpers
RECURSIVE Pow2(_)
Pow2(n) == IF n = 0 THEN 1 ELSE 2 * Pow2(n - 1)

Min(a, b) == IF a < b THEN a ELSE b

RECURSIVE FilterSeq(_, _)
\* [x for x in s if x.sense_id not in ids]
FilterSeq(s, ids) ==
    IF s = <<>> THEN <<>>
    ELSE IF Head(s).sense_id \in ids THEN FilterSeq(Tail(s), ids)
         ELSE <<Head(s)>> \o FilterSeq(Tail(s), ids)

\* A variant of min_interval in which 0 calls per minute is the slowest rate.
MinIntervalNeverZero ==
    IF calls_per_minute > 0 THEN 60 \div calls_per_minute ELSE 60

\* RateLimiter.__init__: min_interval
min_interval == IF calls_per_minute > 0 THEN 60 \div calls_per_minute ELSE 0

Tasks == DOMAIN task

IdleCall == [st |-> "idle", attempt |-> 0, left |-> 0, calls |-> 0,
             fails |-> 0, last |-> None, result |-> Absent]

\* A variant of QueuedTask: a submitted task is past the limiter at once.
QueuedTaskPastLimiter == [st |-> "exec", left |-> 0, result |-> Absent]

QueuedTask == [st |-> "queued", left |-> 0, result |-> Absent]

\* --------------------------------------------------------------- results
\* The PipelineResult a successful execute returns for test case tc.
SuccessResult(tc, s, k) ==
    [test_case |-> tc, pipeline_name |-> s,
     quotations |-> IF k = "ok2" THEN 2 ELSE 0,
     metadata |-> [error_type |-> None, total_execution_time |-> Absent],
     error |-> Absent]

\* type(e).__name__ and str(e) of the exception the except clause sees: the
\* Exception(result.error) raised for an error result, or what execute raised.
ErrorType(k) == IF k = "err" THEN "Exception" ELSE "ConnectionError"
ErrorText(k) == IF k = "err" THEN "HTTP_ERROR" ELSE "connection refused"

\* The PipelineResult built when the final attempt failed.
FailedResult(tc, s, n, k) ==
    [test_case |-> tc, pipeline_name |-> s, quotations |-> 0,
     metadata |-> [error_type |-> ErrorType(k),
                   total_execution_time |-> Absent],
     error |-> <<"Failed after", n, "attempts:", ErrorText(k)>>]

\* A variant of ComparisonResult with the two sides exchanged.
ComparisonResultSwapped(tc, new, old) ==
    [test_case |-> tc, new_result |-> old, old_result |-> new]

\* config.ComparisonResult as _compare_single builds it.
ComparisonResult(tc, new, old) ==
    [test_case |-> tc, new_result |-> new, old_result |-> old]

\* result.metadata['total_execution_time'] = v
WithTotalTime(r, v) == [r EXCEPT !.metadata.total_execution_time = <<v>>]

\* ------------------------------------------------------ CheckpointManager
\* The checkpoint file: absent, or holding a pickled list, or unreadable.
NoFile == [exists |-> FALSE, readable |-> FALSE, data |-> <<>>]

\* A variant of FileOf: save writes nothing.
SaveNothing(results) == NoFile

\* pickle writes an object as its class and the values of its fields, a dict
\* as the pairs of the keys it holds, None as itself, a list item by item.
PickleTestCase(tc) ==
    <<"TestCase", tc.entry_ref, tc.sense_id, tc.word, tc.pos>>

\* A variant of PickleDict that writes the error_type key only.
PickleDictErrorTypeOnly(d) == << <<"error_type", d.error_type>> >>

PickleDict(d) ==
    << <<"error_type", d.error_type>> >> \o
    (IF d.total_execution_time = Absent THEN <<>>
     ELSE << <<"total_execution_time", d.total_execution_time[1]>> >>)

PickleResult(r) ==
    IF "is_none" \in DOMAIN r THEN <<"NoneType">>
    ELSE <<"PipelineResult", PickleTestCase(r.test_case), r.pipeline_name,
           r.quotations, PickleDict(r.metadata), r.error>>

PickleOutcome(o) ==
    IF "new_result" \in DOMAIN o
    THEN <<"ComparisonResult", PickleTestCase(o.test_case),
           PickleResult(o.new_result), PickleResult(o.old_result)>>
    ELSE PickleResult(o)

\* pickle.dump(results, f): the bytes written.
Pickle(results) == [i \in DOMAIN results |-> PickleOutcome(results[i])]

\* pickle.load builds the objects again from what was written.
UnpickleTestCase(p) ==
    [entry_ref |-> p[2], sense_id |-> p[3], word |-> p[4], pos |-> p[5]]

\* The value written for key, Absent when the key was not written.
UnpickleKey(p, key) ==
    IF \E i \in DOMAIN p : p[i][1] = key
    THEN <<p[CHOOSE i \in DOMAIN p : p[i][1] = key][2]>>
    ELSE Absent

UnpickleDict(p) ==
    [error_type |-> UnpickleKey(p, "error_type")[1],
     total_execution_time |-> UnpickleKey(p, "total_execution_time")]

UnpickleResult(p) ==
    IF p[1] = "NoneType" THEN NoneValue
    ELSE [test_case |-> UnpickleTestCase(p[2]), pipeline_name |-> p[3],
          quotations |-> p[4], metadata |-> UnpickleDict(p[5]),
          error |-> p[6]]

UnpickleOutcome(p) ==
    IF p[1] = "ComparisonResult"
    THEN [test_case |-> UnpickleTestCase(p[2]),
          new_result |-> UnpickleResult(p[3]),
          old_result |-> UnpickleResult(p[4])]
    ELSE UnpickleResult(p)

\* pickle.load(f) on the bytes of a complete dump.
Unpickle(bytes) == [i \in DOMAIN bytes |-> UnpickleOutcome(bytes[i])]

\* CheckpointManager.save: the file pickle.dump leaves; data is the list
\* pickle.load reads from it.
FileOf(results) ==
    [exists |-> TRUE, readable |-> TRUE, data |-> Unpickle(Pickle(results))]

\* A variant of Load that takes what a damaged file still holds.
LoadWhatIsThere(f, results) == IF ~f.exists THEN results ELSE f.data

\* A variant of Load that starts every run from an empty list.
LoadNothing(f, results) == <<>>

\* CheckpointManager.load: the list it leaves in self.results and returns.
Load(f, results) ==
    IF ~f.exists THEN results
    ELSE IF ~f.readable THEN <<>>
    ELSE f.data

\* A variant of get_completed_ids that finds no completed id.
NoCompletedIds(results) == {}

\* CheckpointManager.get_completed_ids
get_completed_ids(results) ==
    {results[i].test_case.sense_id : i \in DOMAIN results}

\* A variant of Remaining that skips a test case only when the checkpoint
\* holds an outcome for a test case equal to it in every field.
RemainingByContent(tcs, results) ==
    SelectSeq(tcs, LAMBDA tc :
        tc \notin {results[i].test_case : i \in DOMAIN results})

\* remaining = [tc for tc in test_cases if tc.sense_id not in completed_ids]
Remaining(tcs, results) == FilterSeq(tcs, get_completed_ids(results))

\* ------------------------------------------------------------- the clock
\* Some timer is running: a thread is in time.sleep, or the interval since
\* last_call_time was written is not over.
TimersRunning ==
    \/ since_last_call < min_interval
    \/ \E i \in Tasks : task[i].left > 0
    \/ \E i \in Tasks, s \in Sides : call[i][s].left > 0

Elapse(t) == IF t > 0 THEN t - 1 ELSE 0

\* A second passes.
Tick ==
    /\ TimersRunning
    /\ since_last_call' = Min(since_last_call + 1, min_interval)
    /\ task' = [i \in Tasks |-> [task[i] EXCEPT !.left = Elapse(@)]]
    /\ call' = [i \in Tasks |->
                  [s \in Sides |-> [call[i][s] EXCEPT !.left = Elapse(@)]]]
    /\ UNCHANGED <<config_vars, lock, gaps, seen, store_vars, main_vars,
                   count_vars, hist_vars>>

\* ------------------------------------------------------------ RateLimiter
\* A variant of LockFree: wait_if_needed without its lock.
LockAlwaysFree == TRUE

\* with self.lock: the lock can be taken
LockFree == lock = 0

\* A variant of SleepTime: wait_if_needed never sleeps.
NoSleep(time_since_last) == 0

\* sleep_time of wait_if_needed (0 when it does not sleep)
SleepTime(time_since_last) ==
    IF time_since_last < min_interval
    THEN min_interval - time_since_last
    ELSE 0

\* The two futures _compare_single submits to its own pool of two (both start
\* at once); _execute_single calls _execute_with_retry itself.
StartCalls(i) ==
    [s \in Sides |->
        IF mode = "compare" \/ s = "new"
        THEN [IdleCall EXCEPT !.st = "ready"]
        ELSE IdleCall]

\* wait_if_needed with min_interval = 0: returns at once.
WaitIfNeededDisabled(i) ==
    /\ task[i].st = "limiter"
    /\ min_interval = 0
    /\ task' = [task EXCEPT ![i].st = "exec"]
    /\ call' = [call EXCEPT ![i] = StartCalls(i)]
    /\ UNCHANGED <<config_vars, limiter_vars, store_vars, main_vars,
                   count_vars, hist_vars>>

\* wait_if_needed takes the lock, reads the clock and last_call_time and goes
\* to sleep for the rest of the interval.
WaitIfNeededEnter(i) ==
    /\ task[i].st = "limiter"
    /\ min_interval # 0
    /\ LockFree
    /\ lock' = i
    /\ seen' = Append(seen, Len(gaps))
    /\ task' = [task EXCEPT ![i].st = "locked",
                            ![i].left = SleepTime(since_last_call)]
    /\ UNCHANGED <<config_vars, since_last_call, gaps, store_vars, main_vars,
                   call, count_vars, hist_vars>>

\* The sleep is over: last_call_time = time.time(), the lock is released and
\* wait_if_needed returns.
WaitIfNeededLeave(i) ==
    /\ task[i].st = "locked"
    /\ task[i].left = 0
    /\ since_last_call' = 0
    /\ gaps' = Append(gaps, since_last_call)
    /\ lock' = 0
    /\ task' = [task EXCEPT ![i].st = "exec"]
    /\ call' = [call EXCEPT ![i] = StartCalls(i)]
    /\ UNCHANGED <<config_vars, seen, store_vars, main_vars, count_vars,
                   hist_vars>>

\* ------------------------------------------------------ the worker pool
\* A variant of Running: a task in wait_if_needed does not hold a worker.
RunningPastLimiter == {"exec"}

\* The states in which a task holds a worker of the pool.
Running == {"limiter", "locked", "exec"}

\* A free worker of ThreadPoolExecutor(max_workers=parallel_workers) takes
\* the oldest queued task, which starts by calling wait_if_needed.
StartTask(i) ==
    /\ pc = "collect"
    /\ task[i].st = "queued"
    /\ \A j \in Tasks : j < i => task[j].st # "queued"
    /\ Cardinality({j \in Tasks : task[j].st \in Running}) < parallel_workers
    /\ task' = [task EXCEPT ![i].st = "limiter"]
    /\ n_acquire' = n_acquire + 1
    /\ UNCHANGED <<config_vars, limiter_vars, store_vars, main_vars, call,
                   n_execute, n_save, hist_vars>>

\* --------------------------------------------------- _execute_with_retry
\* A variant of AttemptResult that never gives up: a failed last attempt is
\* followed by another sleep.
AttemptResultNeverGivesUp(tc, s, attempt, n, k) ==
    IF k \in {"err", "raise"} THEN Absent ELSE SuccessResult(tc, s, k)

\* A variant of AttemptResult that gives up at the first failure.
AttemptResultNoRetry(tc, s, attempt, n, k) ==
    IF k \notin FailKinds THEN SuccessResult(tc, s, k)
    ELSE FailedResult(tc, s, n, k)

\* A variant of AttemptResult that takes a success only in the final attempt.
AttemptResultRetriesSuccess(tc, s, attempt, n, k) ==
    IF attempt # n - 1 THEN Absent
    ELSE IF k \notin FailKinds THEN SuccessResult(tc, s, k)
    ELSE FailedResult(tc, s, n, k)

\* A variant of AttemptResult in which a call gives up as soon as a call of
\* the other side has failed for good.
AttemptResultGivesUpWithOther(tc, s, attempt, n, k) ==
    IF k \notin FailKinds THEN SuccessResult(tc, s, k)
    ELSE IF \/ attempt = n - 1
            \/ \E i \in Tasks, t \in Sides \ {s} :
                  call[i][t].st = "ret" /\ call[i][t].last \in FailKinds
         THEN FailedResult(tc, s, n, k)
         ELSE Absent

\* A variant of AttemptResult whose failure result reports the failure of
\* the attempt before the final one, when there was one.
AttemptResultEarlierFailure(tc, s, attempt, n, k) ==
    IF k \notin FailKinds THEN SuccessResult(tc, s, k)
    ELSE IF attempt = n - 1
         THEN LET prior == call[CHOOSE i \in Tasks : remaining[i] = tc][s].last
              IN  FailedResult(tc, s, n, IF prior \in FailKinds THEN prior ELSE k)
         ELSE Absent

\* What _execute_with_retry returns when execute has returned or raised in
\* attempt number attempt (0-based); Absent while it goes on to retry.
AttemptResult(tc, s, attempt, n, k) ==
    IF k \notin FailKinds THEN SuccessResult(tc, s, k)
    ELSE IF attempt = n - 1 THEN FailedResult(tc, s, n, k)
    ELSE Absent

\* A variant of WaitTime that grows by one second per attempt.
WaitTimeLinear(attempt) == attempt + 1

\* wait_time = 2 ** attempt
WaitTime(attempt) == Pow2(attempt)

\* A variant of TaskAfterReturn in which a failed result never reaches the
\* future of a benchmark task.
TaskDoneOnSuccess(i, r) ==
    IF mode = "benchmark" /\ r.error = Absent
    THEN [task EXCEPT ![i].st = "done", ![i].result = r]
    ELSE task

\* The task of a benchmark run is over when its call returns;
\* _compare_single still has to join its two futures.
TaskAfterReturn(i, r) ==
    IF mode = "benchmark"
    THEN [task EXCEPT ![i].st = "done", ![i].result = r]
    ELSE task

\* One pass of the loop body: executor.execute(test_case) is called and
\* returns or raises (k); then the result is returned, or the final attempt
\* has failed and the failure result is returned, or the backoff sleep starts.
Attempt(i, s, k) ==
    /\ call[i][s].st = "ready"
    /\ call[i][s].attempt < max_retries
    /\ n_execute' = n_execute + 1
    /\ LET c == call[i][s]
           r == AttemptResult(remaining[i], s, c.attempt, max_retries, k)
           f == [c EXCEPT !.calls = @ + 1,
                          !.fails = IF k \in FailKinds THEN @ + 1 ELSE @,
                          !.last = k]
       IN  IF r # Absent
           THEN /\ call' = [call EXCEPT ![i][s] =
                                [f EXCEPT !.st = "ret", !.result = r]]
                /\ task' = TaskAfterReturn(i, r)
           ELSE /\ call' = [call EXCEPT ![i][s] =
                                [f EXCEPT !.st = "sleep",
                                          !.left = WaitTime(c.attempt)]]
                /\ task' = task
    /\ UNCHANGED <<config_vars, limiter_vars, store_vars, main_vars,
                   n_acquire, n_save, hist_vars>>

\* time.sleep(wait_time) returns: the next attempt.
BackoffWake(i, s) ==
    /\ call[i][s].st = "sleep"
    /\ call[i][s].left = 0
    /\ call' = [call EXCEPT ![i][s].st = "ready", ![i][s].attempt = @ + 1]
    /\ UNCHANGED <<config_vars, limiter_vars, store_vars, main_vars, task,
                   count_vars, hist_vars>>

\* range(max_retries) is exhausted without a return statement having run
\* (max_retries <= 0): the function falls off its end and returns None.
LoopExit(i, s) ==
    /\ call[i][s].st = "ready"
    /\ call[i][s].attempt >= max_retries
    /\ call' = [call EXCEPT ![i][s].st = "ret", ![i][s].result = NoneValue]
    /\ task' = TaskAfterReturn(i, NoneValue)
    /\ UNCHANGED <<config_vars, limiter_vars, store_vars, main_vars,
                   count_vars, hist_vars>>

\* The frames of a task whose futures have been consumed are gone.
Consumed(i) == [s \in Sides |-> IdleCall]

\* A variant of BothReturned that waits for the new side only.
NewReturned(i) == call[i]["new"].st = "ret"

\* new_future.result() and old_future.result() have both returned.
BothReturned(i) == \A s \in Sides : call[i][s].st = "ret"

\* _compare_single: new_future.result(), old_future.result(), and the
\* ComparisonResult of the two.
CompareJoin(i) ==
    /\ mode = "compare"
    /\ task[i].st = "exec"
    /\ BothReturned(i)
    /\ task' = [task EXCEPT ![i].st = "done",
                            ![i].result = ComparisonResult(remaining[i],
                                call[i]["new"].result, call[i]["old"].result)]
    /\ call' = [call EXCEPT ![i] = Consumed(i)]
    /\ UNCHANGED <<config_vars, limiter_vars, store_vars, main_vars,
                   count_vars, hist_vars>>

\* ------------------------------------------- DeepsetPipelineExecutor
\* No request has been posted yet.
NoResponse == [transport |-> "none", has_errors |-> FALSE, errors |-> <<>>,
               body |-> "none"]

\* A text is written as the sequence of its pieces: the pieces the two
\* patterns are made of, "JSON" in lower case, and some other text.
ErrorPieces ==
    {"number of selections in the ", "JSON", "json", " does not match",
     "int() argument must be a string", "timeout"}

\* str.lower, piece by piece
LowerPiece(w) == IF w = "JSON" THEN "json" ELSE w
Lower(text) == [i \in DOMAIN text |-> LowerPiece(text[i])]

\* pat in text
Contains(text, pat) ==
    \E k \in 0..(Len(text) - Len(pat)) :
        SubSeq(text, k + 1, k + Len(pat)) = pat

\* The two texts execute looks for in str(result_data['errors']).
SelectionsPattern ==
    <<"number of selections in the ", "JSON", " does not match">>
IntArgumentPattern == <<"int() argument must be a string">>

\* is_formatter_error: the first pattern is looked for in the lowered text,
\* the second in the text as it is.
IsFormatterError(r) ==
    /\ r.has_errors
    /\ r.errors # <<>>
    /\ \/ Contains(Lower(r.errors), SelectionsPattern)
       \/ Contains(r.errors, IntArgumentPattern)

\* len(quotations) after the extraction from the body of the response
QuotationsIn(r) == IF r.body = "two" THEN 2 ELSE 0

\* The PipelineResult of execute for test case tc when session.post has
\* brought back r: raise_for_status raises for a status of 400 or more; any
\* other exception (the post itself, response.json(), the extraction from a
\* body of another shape) ends in the last except clause.
Execute(tc, r) ==
    IF r.transport = "http_error"
    THEN [test_case |-> tc, quotations |-> 0,
          metadata |-> [error_type |-> "http_error"],
          error |-> <<"HTTP_ERROR: ", <<>> >>]
    ELSE IF r.transport # "ok" \/ r.body = "malformed"
    THEN [test_case |-> tc, quotations |-> 0,
          metadata |-> [error_type |-> "pipeline_error"],
          error |-> <<"PIPELINE_ERROR: ", <<>> >>]
    ELSE IF IsFormatterError(r)
    THEN [test_case |-> tc, quotations |-> 0,
          metadata |-> [error_type |-> "formatter_error"],
          error |-> <<"FORMATTER_ERROR: ", r.errors>>]
    ELSE [test_case |-> tc, quotations |-> QuotationsIn(r),
          metadata |-> [error_type |-> None],
          error |-> Absent]
\* (None: the metadata has no error_type key.  The message is cut to its
\* first 200 characters; the texts tried here are shorter.)

\* ------------------------------------------------------------------ run
\* The lists of test cases handed to run: sense_id is the key of a test case,
\* no two test cases of one list share it.
InputLists ==
    {l \in UNION {[1..n -> TestCases] : n \in 0..MaxCases} :
        \A i, j \in DOMAIN l : i # j => l[i].sense_id # l[j].sense_id}

\* The first process reads the test data as first written (word "w1"); a
\* later process may find it edited.
FirstLists == {l \in InputLists : \A i \in DOMAIN l : l[i].word = "w1"}

\* A variant of StampAll that leaves the metadata alone in both runners.
StampNone(results, v) == results

\* A variant of StampAll that keeps only the results of the test cases handed
\* to this run.
StampAllOfInput(results, v) ==
    LET ids == {test_cases[j].sense_id : j \in DOMAIN test_cases}
        kept == SelectSeq(results, LAMBDA r : r.test_case.sense_id \in ids)
    IN  IF mode = "benchmark"
        THEN [i \in DOMAIN kept |-> WithTotalTime(kept[i], v)]
        ELSE kept

\* for result in results: result.metadata['total_execution_time'] = v
\* (SinglePipelineRunner only; ParallelComparisonRunner leaves its results).
StampAll(results, v) ==
    IF mode = "benchmark"
    THEN [i \in DOMAIN results |-> WithTotalTime(results[i], v)]
    ELSE results

\* A variant of PeriodicSaveDue that counts the outcomes collected in this
\* run only, the one being appended included, and not those loaded.
PeriodicSaveDueThisRun(n) ==
    (Cardinality({i \in DOMAIN task : task[i].st = "collected"}) + 1)
        % checkpoint_interval = 0

\* A variant of PeriodicSaveDue that is due one outcome later.
PeriodicSaveDueLate(n) == n % (checkpoint_interval + 1) = 0

\* len(all_results) % checkpoint_interval == 0
PeriodicSaveDue(n) == n % checkpoint_interval = 0

\* The state a process starts in, and the one it leaves behind: nothing in
\* memory; RateLimiter.__init__ sets last_call_time = 0, a time long ago.
Fresh(sl, lk, cm, rem, ar, ret, tk, cl, na, ne, ns, gp, sn) ==
    /\ sl = min_interval
    /\ lk = 0
    /\ cm = <<>>
    /\ rem = <<>>
    /\ ar = <<>>
    /\ ret = <<>>
    /\ tk = <<>>
    /\ cl = <<>>
    /\ na = 0
    /\ ne = 0
    /\ ns = 0
    /\ gp = <<>>
    /\ sn = <<>>

\* CheckpointManager.__init__ (and the runner's, with its RateLimiter):
\* self.results = [], then load() when the checkpoint file exists.
Construct ==
    /\ pc = "main"
    /\ pc' = "constructed"
    /\ cm_results' = IF file.exists THEN Load(file, <<>>) ELSE <<>>
    /\ UNCHANGED <<config_vars, limiter_vars, file, test_cases, remaining,
                   all_results, returned, task, call, count_vars, hist_vars>>

\* run, nothing remaining: the loaded checkpoint is returned.  load() hands
\* out self.results itself, so what is done to the returned list is done to
\* the store's list.
RunNoop ==
    /\ pc = "constructed"
    /\ Remaining(test_cases, cm_results) = <<>>
    /\ remaining' = <<>>
    /\ returned' = StampAll(Load(file, cm_results), 0)
    /\ cm_results' = returned'
    /\ pc' = "returned"
    /\ UNCHANGED <<config_vars, limiter_vars, file, test_cases, all_results,
                   task, call, count_vars, hist_vars>>

\* run, something remaining: all_results = load() (the store's own list) and
\* one future is submitted per remaining test case.
RunSubmit ==
    /\ pc = "constructed"
    /\ Remaining(test_cases, cm_results) # <<>>
    /\ remaining' = Remaining(test_cases, cm_results)
    /\ all_results' = Load(file, cm_results)
    /\ cm_results' = all_results'
    /\ task' = [i \in DOMAIN remaining' |-> QueuedTask]
    /\ call' = [i \in DOMAIN remaining' |-> [s \in Sides |-> IdleCall]]
    /\ pc' = "collect"
    /\ UNCHANGED <<config_vars, limiter_vars, file, test_cases, returned,
                   count_vars, hist_vars>>

\* A variant of Yielded in which as_completed hands out a finished future
\* again and again.
YieldedAgain(i) == task

\* as_completed yields a finished future once.
Yielded(i) == [task EXCEPT ![i].st = "collected", ![i].result = Absent]

\* One iteration of the as_completed loop: the result of a finished future is
\* appended to all_results (which is the store's list) and the checkpoint is
\* saved when the length is a multiple of checkpoint_interval.
Collect(i) ==
    /\ pc = "collect"
    /\ task[i].st = "done"
    /\ all_results' = Append(all_results, task[i].result)
    /\ cm_results' = all_results'
    /\ task' = Yielded(i)
    /\ call' = [call EXCEPT ![i] = Consumed(i)]
    /\ IF PeriodicSaveDue(Len(all_results'))
       THEN /\ file' = FileOf(all_results')
            /\ n_save' = n_save + 1
       ELSE UNCHANGED <<file, n_save>>
    /\ UNCHANGED <<config_vars, limiter_vars, pc, test_cases, remaining,
                   returned, n_acquire, n_execute, hist_vars>>

\* Every future has been handled: the final save, then (benchmark) the total
\* time is written into the metadata of every result, and run returns.
Finish ==
    /\ pc = "collect"
    /\ \A i \in Tasks : task[i].st = "collected"
    /\ file' = FileOf(all_results)
    /\ n_save' = n_save + 1
    /\ all_results' = StampAll(all_results, TotalTime)
    /\ cm_results' = all_results'
    /\ returned' = all_results'
    /\ pc' = "returned"
    /\ UNCHANGED <<config_vars, limiter_vars, test_cases, remaining, task,
                   call, n_acquire, n_execute, hist_vars>>

\* The process is interrupted between two iterations of the loop: the
\* KeyboardInterrupt leaves run before the final save and the process ends.
Interrupt ==
    /\ pc = "collect"
    /\ pc' = "interrupted"
    /\ Fresh(since_last_call', lock', cm_results', remaining', all_results',
             returned', task', call', n_acquire', n_execute', n_save',
             gaps', seen')
    /\ UNCHANGED <<config_vars, file, test_cases, hist_vars>>

\* A new process is started on the same checkpoint directory and run
\* identity, with the test cases tcs.
NewProcess(tcs) ==
    /\ pc \in {"returned", "interrupted"}
    /\ runs < MaxRuns
    /\ runs' = runs + 1
    /\ prev_how' = pc
    /\ same_cases' = (tcs = test_cases)
    /\ test_cases' = tcs
    /\ pc' = "main"
    /\ Fresh(since_last_call', lock', cm_results', remaining', all_results',
             returned', task', call', n_acquire', n_execute', n_save',
             gaps', seen')
    /\ UNCHANGED <<config_vars, file, save_args, checkpoint_dir, finished,
                   response, executed>>

\* ------------------------------------------------------- specifications
\* benchmark_pipeline.py builds its ComparisonConfig from the command line;
\* compare_pipelines.py passes the number of workers only.
Configured ==
    /\ mode \in Modes
    /\ parallel_workers \in WorkerChoices
    /\ checkpoint_interval \in
         IF mode = "benchmark" THEN IntervalChoices
         ELSE {DefaultCheckpointInterval}
    /\ calls_per_minute \in
         IF mode = "benchmark" THEN RateChoices ELSE {DefaultRateLimit}
    /\ max_retries = RunnerMaxRetries

\* The first process on a fresh checkpoint directory.
Init ==
    /\ Configured
    /\ file = NoFile
    /\ pc = "main"
    /\ test_cases \in FirstLists
    /\ runs = 1
    /\ prev_how = None
    /\ same_cases = FALSE
    /\ save_args = <<>>
    /\ checkpoint_dir = <<>>
    /\ finished = <<>>
    /\ response = NoResponse
    /\ executed = Absent
    /\ Fresh(since_last_call, lock, cm_results, remaining, all_results,
             returned, task, call, n_acquire, n_execute, n_save, gaps, seen)

Next ==
    \/ Tick
    \/ Construct
    \/ RunNoop
    \/ RunSubmit
    \/ \E i \in Tasks : StartTask(i)
    \/ \E i \in Tasks : WaitIfNeededDisabled(i)
    \/ \E i \in Tasks : WaitIfNeededEnter(i)
    \/ \E i \in Tasks : WaitIfNeededLeave(i)
    \/ \E i \in Tasks, s \in Sides, k \in RunKinds : Attempt(i, s, k)
    \/ \E i \in Tasks, s \in Sides : BackoffWake(i, s)
    \/ \E i \in Tasks : CompareJoin(i)
    \/ \E i \in Tasks : Collect(i)
    \/ Finish
    \/ Interrupt
    \/ \E tcs \in InputLists : NewProcess(tcs)

Spec == Init /\ [][Next]_vars

\* --------------------------------------- _execute_with_retry taken alone
\* max_retries is a parameter of _execute_with_retry (int, default 3).
RetryArgs == 0..MaxRetriesArg

\* One call of _execute_with_retry (two in _compare_single) for one test
\* case, with an executor whose execute returns or raises as it likes.
InitRetry ==
    /\ mode \in Modes
    /\ parallel_workers = 1
    /\ checkpoint_interval = DefaultCheckpointInterval
    /\ calls_per_minute = DefaultRateLimit
    /\ max_retries \in RetryArgs
    /\ file = NoFile
    /\ pc = "adapter"
    /\ test_cases \in {l \in FirstLists : Len(l) = 1}
    /\ remaining = test_cases
    /\ task = <<[QueuedTask EXCEPT !.st = "exec"]>>
    /\ call = <<StartCalls(1)>>
    /\ runs = 1
    /\ prev_how = None
    /\ same_cases = FALSE
    /\ save_args = <<>>
    /\ checkpoint_dir = <<>>
    /\ finished = <<>>
    /\ response = NoResponse
    /\ executed = Absent
    /\ Fresh(since_last_call, lock, cm_results, <<>>, all_results, returned,
             <<>>, <<>>, n_acquire, n_execute, n_save, gaps, seen)

NextRetry ==
    \/ Tick
    \/ \E i \in Tasks, s \in Sides, k \in CallKinds : Attempt(i, s, k)
    \/ \E i \in Tasks, s \in Sides : BackoffWake(i, s)
    \/ \E i \in Tasks, s \in Sides : LoopExit(i, s)

SpecRetry == InitRetry /\ [][NextRetry]_vars

\* ------------------------------------------------ RateLimiter taken alone
\* The threads that share one RateLimiter.
Threads == 1..parallel_workers

\* A thread calls wait_if_needed (as _execute_single and _compare_single do
\* first of all), for the first time or again.
CallWaitIfNeeded(i) ==
    /\ task[i].st \in {"queued", "exec"}
    /\ n_acquire < MaxAcquires
    /\ n_acquire' = n_acquire + 1
    /\ task' = [task EXCEPT ![i].st = "limiter"]
    /\ UNCHANGED <<config_vars, limiter_vars, store_vars, main_vars, call,
                   n_execute, n_save, hist_vars>>

InitRL ==
    /\ mode = "benchmark"
    /\ parallel_workers \in WorkerChoices
    /\ checkpoint_interval = DefaultCheckpointInterval
    /\ calls_per_minute \in LimiterRates
    /\ max_retries = RunnerMaxRetries
    /\ file = NoFile
    /\ pc = "limiter"
    /\ test_cases = <<>>
    /\ task = [i \in Threads |-> QueuedTask]
    /\ call = [i \in Threads |-> [s \in Sides |-> IdleCall]]
    /\ runs = 1
    /\ prev_how = None
    /\ same_cases = FALSE
    /\ save_args = <<>>
    /\ checkpoint_dir = <<>>
    /\ finished = <<>>
    /\ response = NoResponse
    /\ executed = Absent
    /\ Fresh(since_last_call, lock, cm_results, remaining, all_results,
             returned, <<>>, <<>>, n_acquire, n_execute, n_save, gaps, seen)

NextRL ==
    \/ Tick
    \/ \E i \in Tasks : CallWaitIfNeeded(i)
    \/ \E i \in Tasks : WaitIfNeededDisabled(i)
    \/ \E i \in Tasks : WaitIfNeededEnter(i)
    \/ \E i \in Tasks : WaitIfNeededLeave(i)

SpecRL == InitRL /\ [][NextRL]_vars

\* ================================================================ claims
\* The sense ids of a list of test cases, and of a list of outcomes.
CaseIds(tcs) == {tcs[i].sense_id : i \in DOMAIN tcs}
OutcomeIds(results) == {results[i].test_case.sense_id : i \in DOMAIN results}

\* How many outcomes of results are for sense id id.
CountOf(results, id) ==
    Cardinality({i \in DOMAIN results : results[i].test_case.sense_id = id})

DistinctCases(tcs) ==
    \A i, j \in DOMAIN tcs : i # j => tcs[i].sense_id # tcs[j].sense_id
DistinctOutcomes(results) == \A id \in OutcomeIds(results) : CountOf(results, id) = 1

\* The second process, started after the first was interrupted, with the
\* test cases of the first.
ResumedAfterInterrupt ==
    runs = 2 /\ prev_how = "interrupted" /\ same_cases

\* C1: when the first run on a fresh checkpoint is interrupted between two
\* collected cases and a second run is started with the same list (pairwise
\* distinct sense ids) and the same checkpoint, the list the second run
\* returns holds exactly one outcome for each input sense id: none twice,
\* none missing, none else.
C1_ResumeExactlyOnePerCase ==
    (ResumedAfterInterrupt /\ DistinctCases(test_cases) /\ pc = "returned") =>
        /\ OutcomeIds(returned) = CaseIds(test_cases)
        /\ \A id \in CaseIds(test_cases) : CountOf(returned, id) = 1
        /\ Len(returned) = Len(test_cases)

\* The second run has returned after loading some of the outcomes from the
\* checkpoint of the interrupted run and executing the others.
C1_Witness ==
    /\ ResumedAfterInterrupt
    /\ pc = "returned"
    /\ Len(test_cases) >= 2
    /\ remaining # <<>>
    /\ Len(remaining) < Len(test_cases)
    /\ n_execute > 0

\* A run has submitted its futures and has not returned, or has returned
\* after collecting them.
InRun == pc = "collect" \/ (pc = "returned" /\ remaining # <<>>)

\* C2: within a run there is one task per remaining test case and, whatever
\* the order in which the workers finish, the outcome of a task is in
\* all_results once when it has been collected and not at all before; with
\* distinct input sense ids and a checkpoint without duplicates, all_results
\* never holds two outcomes for one sense id.
C2_AppendedExactlyOnce ==
    (InRun /\ DistinctCases(test_cases) /\ DistinctOutcomes(file.data)) =>
        /\ DOMAIN task = DOMAIN remaining
        /\ \A i \in Tasks :
              CountOf(all_results, remaining[i].sense_id) =
                  IF task[i].st = "collected" THEN 1 ELSE 0
        /\ DistinctOutcomes(all_results)

\* Two workers: the second task has been collected while the first is still
\* being worked on.
C2_Witness ==
    /\ pc = "collect"
    /\ parallel_workers = 2
    /\ Len(remaining) = 2
    /\ task[2].st = "collected"
    /\ task[1].st = "exec"
    /\ Len(all_results) >= 1

\* run has computed remaining and the checkpoint file is still the one it
\* found at its start.
StartedUnsaved == pc \in {"collect", "returned"} /\ n_save = 0

\* C3: at the start of run a test case is put in remaining, and so given a
\* task, if and only if its sense id is not the sense id of an outcome in the
\* checkpoint; its other fields play no part, and remaining keeps the order
\* of the input.
C3_RemainingIffIdNotCheckpointed ==
    StartedUnsaved =>
        /\ \A j \in DOMAIN test_cases :
              (\E i \in DOMAIN remaining : remaining[i] = test_cases[j])
              <=> test_cases[j].sense_id \notin OutcomeIds(file.data)
        /\ \A i \in DOMAIN remaining :
              remaining[i].sense_id \notin OutcomeIds(file.data)
        /\ DOMAIN task = DOMAIN remaining

\* A test case whose word was edited after its outcome was checkpointed is
\* not in remaining, while another test case is.
C3_Witness ==
    /\ StartedUnsaved
    /\ pc = "collect"
    /\ \E j \in DOMAIN test_cases, i \in DOMAIN file.data :
          /\ file.data[i].test_case.sense_id = test_cases[j].sense_id
          /\ file.data[i].test_case.word # test_cases[j].word
          /\ \A r \in DOMAIN remaining : remaining[r] # test_cases[j]

\* run has returned through its no-op path (the other path saves).
NoopReturned == pc = "returned" /\ n_save = 0

\* C4 as stated: a no-op run returns the outcomes of the checkpoint, in their
\* order, with no field changed, in benchmark and in compare mode.
C4_NoopVerbatim ==
    NoopReturned => returned = file.data

\* An outcome equal to r in every field but metadata.total_execution_time,
\* which is 0.
SameButTotalTimeZero(o, r) ==
    /\ o.test_case = r.test_case
    /\ o.pipeline_name = r.pipeline_name
    /\ o.quotations = r.quotations
    /\ o.error = r.error
    /\ o.metadata.error_type = r.metadata.error_type
    /\ o.metadata.total_execution_time = <<0>>

\* C4, amended: a no-op run returns one outcome per outcome of the
\* checkpoint, in the checkpoint's order; in compare mode each is the
\* checkpointed outcome with no field changed, in benchmark mode each is the
\* checkpointed outcome with metadata.total_execution_time set to 0 and no
\* other field changed.  The checkpoint file is left as it was.
C4_NoopVerbatimButTotalTime ==
    NoopReturned =>
        /\ Len(returned) = Len(file.data)
        /\ \A i \in DOMAIN returned :
              IF mode = "compare"
              THEN returned[i] = file.data[i]
              ELSE SameButTotalTimeZero(returned[i], file.data[i])

\* A benchmark run has returned a non-empty checkpoint through the no-op
\* path.
C4_Witness ==
    /\ NoopReturned
    /\ mode = "benchmark"
    /\ returned # <<>>
    /\ Len(returned) = Len(test_cases)

\* A process started after the process before it has returned from run, with
\* the same test cases.
RerunAfterCompleted == runs >= 2 /\ prev_how = "returned" /\ same_cases

\* C5: a run with the test cases and the checkpoint of a completed run is a
\* no-op: remaining is empty, and the run calls wait_if_needed, execute and
\* save not once.
C5_SecondRunIsNoop ==
    RerunAfterCompleted =>
        /\ pc \in {"main", "constructed", "returned"}
        /\ pc = "constructed" => Remaining(test_cases, cm_results) = <<>>
        /\ remaining = <<>>
        /\ n_acquire = 0 /\ n_execute = 0 /\ n_save = 0

\* The second run over two cases has returned their outcomes.
C5_Witness ==
    /\ RerunAfterCompleted
    /\ pc = "returned"
    /\ Len(test_cases) >= 2
    /\ Len(returned) = Len(test_cases)

\* The calls of _execute_with_retry that have returned.
ReturnedCalls ==
    {c \in Tasks \X Sides : call[c[1]][c[2]].st = "ret"}

\* C6: for max_retries >= 1, when every call of execute failed (by raising
\* or by returning a result with error set), _execute_with_retry has called
\* execute exactly max_retries times when it returns, and the result it
\* returns has error set ("Failed after max_retries attempts: ...").  It
\* never calls execute more than max_retries times.
C6_AlwaysFailingInvokedMaxRetries ==
    \A i \in Tasks, s \in Sides :
        LET c == call[i][s] IN
        /\ c.calls <= max_retries
        /\ (max_retries >= 1 /\ c.st = "ret" /\ c.fails = c.calls) =>
              /\ c.calls = max_retries
              /\ c.result.error # Absent
              /\ c.result = FailedResult(remaining[i], s, max_retries, c.last)

\* A call with the largest max_retries has returned after execute raised in
\* every attempt.
C6_Witness ==
    /\ max_retries = MaxRetriesArg
    /\ \E c \in ReturnedCalls :
          /\ call[c[1]][c[2]].fails = max_retries
          /\ call[c[1]][c[2]].last = "raise"

\* C7: when execute failed in its first k attempts, k < max_retries, and
\* succeeded in attempt k + 1, _execute_with_retry has called execute exactly
\* k + 1 times when it returns, and it returns the result of that call as
\* it is, error unset; a call that has returned makes no attempt.
C7_SucceedsAfterKFailures ==
    \A i \in Tasks, s \in Sides :
        LET c == call[i][s] IN
        (c.st = "ret" /\ c.last \in CallKinds \ FailKinds) =>
            /\ c.fails < max_retries
            /\ c.calls = c.fails + 1
            /\ c.result = SuccessResult(remaining[i], s, c.last)
            /\ c.result.error = Absent
            /\ ~ENABLED Attempt(i, s, c.last)

\* A call has returned the success of its final attempt, after two failures.
C7_Witness ==
    \E c \in ReturnedCalls :
        /\ call[c[1]][c[2]].fails = 2
        /\ call[c[1]][c[2]].calls = 3
        /\ call[c[1]][c[2]].last = "ok2"
        /\ max_retries = 3

\* C8 as stated: whatever execute does and whatever max_retries is, a call
\* of _execute_with_retry that has returned has returned a PipelineResult
\* for the test case it was given.
C8_AdapterReturnsOutcome ==
    \A c \in ReturnedCalls :
        /\ call[c[1]][c[2]].result # NoneValue
        /\ call[c[1]][c[2]].result.test_case = remaining[c[1]]

RECURSIVE SpanOf(_, _)
\* The seconds from the a-th to the b-th return of wait_if_needed (the
\* writes of last_call_time), a <= b, as far as they are counted: a gap
\* longer than min_interval counts as min_interval, so the time that has
\* really passed is at least SpanOf(a, b).
SpanOf(a, b) == IF a >= b THEN 0 ELSE gaps[b] + SpanOf(a, b - 1)

\* C9: with calls_per_minute = N > 0 and any threads calling one RateLimiter
\* in any order, the returns of any M consecutive calls of wait_if_needed
\* (from the a-th to the b-th, M = b - a + 1) span at least (M - 1) * 60 / N
\* seconds, also when the limiter was idle for an interval or longer before
\* the first of them (N divides 60 in LimiterRates, so the seconds are whole).
C9_ConsecutiveAcquiresSpan ==
    calls_per_minute > 0 =>
        \A a, b \in DOMAIN gaps :
            a <= b => SpanOf(a, b) * calls_per_minute >= (b - a) * 60

\* Two threads have made MaxAcquires calls at 20 calls per minute, the first
\* of them on a limiter never used before.
C9_Witness ==
    /\ calls_per_minute = 20
    /\ parallel_workers = 2
    /\ Len(gaps) = MaxAcquires
    /\ \E i, j \in DOMAIN seen : seen[i] = 0 /\ seen[j] = MaxAcquires - 1

\* The threads between the read of last_call_time and its write.
InCriticalSection == {i \in Tasks : task[i].st = "locked"}

\* C10: in wait_if_needed the read of last_call_time, the sleep for the rest
\* of the interval and the write of last_call_time are one critical section:
\* at most one thread is in it at any time (the one that holds the lock), and
\* no two calls read the same write of last_call_time.
C10_CriticalSection ==
    /\ Cardinality(InCriticalSection) <= 1
    /\ \A i \in InCriticalSection : lock = i
    /\ \A m, n \in DOMAIN seen : m # n => seen[m] # seen[n]

\* One thread sleeps in the critical section while another waits for the
\* lock.
C10_Witness ==
    \E i, j \in Tasks :
        /\ i # j
        /\ task[i].st = "locked"
        /\ task[i].left > 0
        /\ task[j].st = "limiter"
        /\ min_interval # 0

\* C11 as stated: with calls_per_minute > 0 every call of execute (first
\* attempt, retry, new side and old side of a comparison) is made after a
\* call of wait_if_needed of its own has returned, so that the calls of
\* execute made so far are no more than the returns of wait_if_needed.
C11_EveryInvocationAcquired ==
    calls_per_minute > 0 => n_execute <= Len(gaps)

\* C12: with calls_per_minute = 0 the limiter is disabled, for one thread
\* or several: a thread that has called wait_if_needed can return at once,
\* nobody sleeps in it or holds its lock, last_call_time is never read or
\* written, and a step in which wait_if_needed returns leaves the limiter
\* as it was.
C12_DisabledLimiter ==
    calls_per_minute = 0 =>
        /\ lock = 0
        /\ gaps = <<>> /\ seen = <<>>
        /\ since_last_call = 0
        /\ \A i \in Tasks :
              /\ task[i].st # "locked"
              /\ task[i].left = 0
              /\ task[i].st = "limiter" =>
                    /\ ENABLED WaitIfNeededDisabled(i)
                    /\ ~ENABLED WaitIfNeededEnter(i)

\* Two threads are in wait_if_needed of a disabled limiter at once, after
\* one of them has already been through it.
C12_Witness ==
    /\ calls_per_minute = 0
    /\ parallel_workers = 2
    /\ \A i \in Tasks : task[i].st = "limiter"
    /\ n_acquire >= 3

\* ---------------- one comparison run, the old pipeline failing throughout
\* What execute of the new executor does (it succeeds) and what execute of
\* the old executor does (it fails) in every call.
NewSucceeds == CallKinds \ FailKinds
OldFails == FailKinds

InitOldFails == Init /\ mode = "compare"

\* The threads of the run, none of them interrupted.
NextOldFails ==
    \/ Tick
    \/ Construct
    \/ RunNoop
    \/ RunSubmit
    \/ \E i \in Tasks : StartTask(i)
    \/ \E i \in Tasks : WaitIfNeededEnter(i)
    \/ \E i \in Tasks : WaitIfNeededLeave(i)
    \/ \E i \in Tasks, k \in NewSucceeds : Attempt(i, "new", k)
    \/ \E i \in Tasks, k \in OldFails : Attempt(i, "old", k)
    \/ \E i \in Tasks, s \in Sides : BackoffWake(i, s)
    \/ \E i \in Tasks : CompareJoin(i)
    \/ \E i \in Tasks : Collect(i)
    \/ Finish

\* The threads keep running and the sleeps end.
SpecOldFails ==
    InitOldFails /\ [][NextOldFails]_vars /\ WF_vars(NextOldFails)

\* The list returned holds, for each test case and in nothing else, a
\* ComparisonResult whose old side carries an error and whose new side
\* carries none.
OldFailedNewSucceeded ==
    /\ Len(returned) = Len(test_cases)
    /\ \A j \in DOMAIN test_cases :
          \E i \in DOMAIN returned : returned[i].test_case = test_cases[j]
    /\ \A i \in DOMAIN returned :
          /\ returned[i].old_result.error # Absent
          /\ returned[i].new_result.error = Absent

\* C13: in a comparison run in which the old pipeline fails in every attempt
\* and the new one succeeds in every attempt, run returns in the end, and it
\* returns for every test case a ComparisonResult with old_result.error set
\* and new_result.error unset.
C13_OldFailsNewSucceeds ==
    <>(pc = "returned" /\ OldFailedNewSucceeded)

\* Such a run with two workers has returned the outcomes of two test cases.
C13_Witness ==
    /\ pc = "returned"
    /\ parallel_workers = 2
    /\ Len(returned) = 2
    /\ OldFailedNewSucceeded
    /\ n_execute = 2 * (1 + max_retries)

\* r is what _execute_with_retry returns in the end: the result of a
\* successful execute, or the result built when the final attempt failed.
ResolvedResult(r) ==
    IF r = Absent \/ r = NoneValue THEN FALSE
    ELSE \/ r.error = Absent
         \/ \E k \in FailKinds :
               r.error = <<"Failed after", max_retries, "attempts:",
                           ErrorText(k)>>

\* o is a resolved outcome of the runner: a PipelineResult, or a
\* ComparisonResult with both of its sides resolved.
ResolvedOutcome(o) ==
    IF o = Absent \/ o = NoneValue THEN FALSE
    ELSE IF mode = "benchmark" THEN ResolvedResult(o)
    ELSE ResolvedResult(o.new_result) /\ ResolvedResult(o.old_result)

AllResolved(results) ==
    \A i \in DOMAIN results : ResolvedOutcome(results[i])

\* C14: every outcome in all_results, in the list run returns and in the
\* checkpoint (file and cache) is resolved: a PipelineResult is a success
\* or the failure of the final attempt, never the result of an attempt that
\* is retried; a call of _execute_with_retry returns only with a success or
\* after max_retries failed calls; and the ComparisonResult of a finished
\* task has a resolved new side and a resolved old side.
C14_OutcomesResolved ==
    /\ AllResolved(all_results)
    /\ AllResolved(returned)
    /\ AllResolved(file.data)
    /\ AllResolved(cm_results)
    /\ \A i \in Tasks :
          /\ task[i].st = "done" => ResolvedOutcome(task[i].result)
          /\ \A s \in Sides :
                LET c == call[i][s] IN
                c.st = "ret" =>
                    /\ ResolvedResult(c.result)
                    /\ c.result.error = Absent => c.last \notin FailKinds
                    /\ c.result.error # Absent =>
                          c.fails = max_retries /\ c.calls = max_retries

\* A comparison in which one side has returned its failure after three
\* attempts and waits for the other side, which is still retrying.
C14_Witness ==
    /\ mode = "compare"
    /\ \E i \in Tasks :
          /\ task[i].st = "exec"
          /\ call[i]["old"].st = "ret"
          /\ call[i]["old"].result.error # Absent
          /\ call[i]["new"].st = "sleep"
    /\ Len(all_results) >= 1

\* ------------------------------------------- one run, not interrupted
\* The threads of one run, execute free to succeed or to return an error in
\* every call.
NextOneRun ==
    \/ Tick
    \/ Construct
    \/ RunNoop
    \/ RunSubmit
    \/ \E i \in Tasks : StartTask(i)
    \/ \E i \in Tasks : WaitIfNeededDisabled(i)
    \/ \E i \in Tasks : WaitIfNeededEnter(i)
    \/ \E i \in Tasks : WaitIfNeededLeave(i)
    \/ \E i \in Tasks, s \in Sides, k \in RunKinds : Attempt(i, s, k)
    \/ \E i \in Tasks, s \in Sides : BackoffWake(i, s)
    \/ \E i \in Tasks : CompareJoin(i)
    \/ \E i \in Tasks : Collect(i)
    \/ Finish

\* The threads keep running and the sleeps end.
SpecOneRun == Init /\ [][NextOneRun]_vars /\ WF_vars(NextOneRun)

\* The outcome of test case j in the list run has returned carries an error.
ReturnedWithError(j) ==
    IF mode = "benchmark" THEN returned[j].error # Absent
    ELSE \E s \in {returned[j].new_result, returned[j].old_result} :
             s.error # Absent

\* run has returned one outcome for each test case.
ReturnedForEveryCase ==
    /\ pc = "returned"
    /\ Len(returned) = Len(test_cases)
    /\ \A j \in DOMAIN test_cases :
          CountOf(returned, test_cases[j].sense_id) = 1

\* C15: whatever the calls of execute do, a test case that fails in all its
\* attempts included, the run is not aborted: run returns in the end, and
\* the list it returns holds one outcome for every test case, the failed one
\* (with its error) like the others.
C15_FailureDoesNotAbortRun ==
    <>ReturnedForEveryCase

\* One worker: the first test case failed in all three attempts, the second
\* was executed after it and succeeded, and run has returned both outcomes.
C15_Witness ==
    /\ ReturnedForEveryCase
    /\ parallel_workers = 1
    /\ Len(returned) = 2
    /\ ReturnedWithError(1)
    /\ ~ReturnedWithError(2)
    /\ n_save >= 1

\* run has returned after submitting at least one test case (through its
\* final save).
ReturnedAfterWork == pc = "returned" /\ remaining # <<>>

\* C16 as stated: when run returns after executing at least one test case,
\* the checkpoint file holds exactly the outcomes of the returned list, in
\* its order.
C16_CheckpointIsReturnedList ==
    ReturnedAfterWork => file = FileOf(returned)

\* Outcome o is the SinglePipelineRunner's returned form of the saved
\* outcome r: r has no total_execution_time, o has the total time of the
\* run there, and the two are equal in every other field.
SavedThenStamped(o, r) ==
    /\ o.test_case = r.test_case
    /\ o.pipeline_name = r.pipeline_name
    /\ o.quotations = r.quotations
    /\ o.error = r.error
    /\ o.metadata.error_type = r.metadata.error_type
    /\ r.metadata.total_execution_time = Absent
    /\ o.metadata.total_execution_time = <<TotalTime>>

\* C16, amended: when run returns after executing at least one test case,
\* a save has happened after the last append, whatever the checkpoint
\* interval: the checkpoint file holds one outcome per outcome of the
\* returned list, in the same order; in compare mode the two are equal, in
\* benchmark mode they are equal except that the returned outcome has
\* metadata.total_execution_time set (after the save) and the saved one
\* has not.
C16_CheckpointIsReturnedListButTotalTime ==
    ReturnedAfterWork =>
        /\ n_save >= 1
        /\ file.exists /\ file.readable
        /\ Len(file.data) = Len(returned)
        /\ \A i \in DOMAIN returned :
              IF mode = "compare"
              THEN file.data[i] = returned[i]
              ELSE SavedThenStamped(returned[i], file.data[i])

\* A benchmark run with checkpoint interval 2 has returned one outcome: no
\* periodic save was due, the final save has written it.
C16_Witness ==
    /\ ReturnedAfterWork
    /\ mode = "benchmark"
    /\ checkpoint_interval = 2
    /\ Len(returned) = 1
    /\ n_save = 1

\* C17 as stated: when the process is interrupted while the collect loop is
\* between two futures, all_results is saved once more before the run ends,
\* so that every outcome collected before the interrupt is in the checkpoint
\* file the process leaves behind.
C17_InterruptSavesCollected ==
    [][(pc = "collect" /\ pc' = "interrupted") =>
          /\ Len(file'.data) >= Len(all_results)
          /\ \A i \in DOMAIN all_results : file'.data[i] = all_results[i]]_vars

\* C18: in the collect loop, each time an outcome is appended and the
\* length of all_results, loaded outcomes included, is then a multiple of
\* checkpoint_interval, save is called with all_results in that iteration,
\* before anything else is appended; when the length is no multiple, and in
\* every step of the loop that appends nothing, nothing is saved.
C18_PeriodicSaveAtMultiples ==
    [][(pc = "collect" /\ pc' = "collect") =>
          IF Len(all_results') = Len(all_results) + 1
             /\ Len(all_results') % checkpoint_interval = 0
          THEN /\ file' = FileOf(all_results')
               /\ cm_results' = all_results'
               /\ n_save' = n_save + 1
          ELSE file' = file /\ n_save' = n_save]_vars

\* A resumed run with checkpoint interval 2 that loaded one outcome has
\* appended its first outcome and saved the two.
C18_Witness ==
    /\ pc = "collect"
    /\ checkpoint_interval = 2
    /\ Len(remaining) = 1
    /\ Len(all_results) = 2
    /\ n_save = 1
    /\ file = FileOf(all_results)

\* ------------------------------------------ CheckpointManager taken alone
\* save is taken apart here into its two writes, open(file, 'wb') and
\* pickle.dump, between which the process can die.

\* A variant of OpenForWriting that keeps what the file holds (mode 'ab').
OpenForAppending(f) == [exists |-> TRUE, readable |-> FALSE, data |-> f.data]

\* open(self.checkpoint_file, 'wb'): the file is there and empty; pickle.load
\* fails on it until the dump is complete.
OpenForWriting(f) == [exists |-> TRUE, readable |-> FALSE, data |-> <<>>]

\* pickle.dump(results, f) on the file as opened.
Dumped(f, results) == FileOf(f.data \o results)

\* The lists of outcomes a caller hands to save.
OutcomeLists ==
    {[i \in DOMAIN l |-> SuccessResult(l[i], "new", "ok2")] : l \in InputLists}

\* save(results), first part: self.results = results and the file is opened
\* for writing.
SaveBegin(results) ==
    /\ pc = "constructed"
    /\ Len(save_args) < MaxSaves
    /\ save_args' = Append(save_args, results)
    /\ all_results' = results
    /\ cm_results' = results
    /\ file' = OpenForWriting(file)
    /\ pc' = "saving"
    /\ UNCHANGED <<config_vars, limiter_vars, test_cases, remaining, returned,
                   task, call, count_vars, runs, prev_how, same_cases,
                   checkpoint_dir, finished, response, executed>>

\* save, second part: the dump is written and the file closed.
SaveEnd ==
    /\ pc = "saving"
    /\ file' = Dumped(file, cm_results)
    /\ n_save' = n_save + 1
    /\ pc' = "constructed"
    /\ UNCHANGED <<config_vars, limiter_vars, cm_results, test_cases,
                   remaining, all_results, returned, task, call, n_acquire,
                   n_execute, hist_vars>>

\* The process dies in save, between the two writes; a new process will
\* construct its CheckpointManager on the file as it is.
CrashInSave ==
    /\ pc = "saving"
    /\ pc' = "main"
    /\ save_args' = <<>>
    /\ Fresh(since_last_call', lock', cm_results', remaining', all_results',
             returned', task', call', n_acquire', n_execute', n_save',
             gaps', seen')
    /\ UNCHANGED <<config_vars, file, test_cases, runs, prev_how, same_cases,
                   checkpoint_dir, finished, response, executed>>

InitSave ==
    /\ Init
    /\ mode = "benchmark"
    /\ parallel_workers = 1
    /\ checkpoint_interval = DefaultCheckpointInterval
    /\ calls_per_minute = DefaultRateLimit
    /\ test_cases = <<>>

NextSave ==
    \/ Construct
    \/ \E results \in OutcomeLists : SaveBegin(results)
    \/ SaveEnd
    \/ CrashInSave

SpecSave == InitSave /\ [][NextSave]_vars

\* C19 as stated: save is atomic for its caller: at every moment, a crash in
\* the middle of save included, the checkpoint file is a complete list (the
\* one saved before or the one being saved), never empty or unreadable.
C19_SaveAtomic ==
    file.exists =>
        /\ file.readable
        /\ save_args # <<>> => file.data \in {save_args[n] : n \in DOMAIN save_args}

\* The list handed to the last call of save.
LastSaved == save_args[Len(save_args)]

\* C20: when a call of save(results) has returned, the store's cache is
\* results and the checkpoint file holds results, the whole list and nothing
\* of what it held before; so a second call with the same list leaves the
\* cache and the file as the first call left them.
C20_SaveReplacesAndIsIdempotent ==
    (pc = "constructed" /\ save_args # <<>>) =>
        /\ cm_results = LastSaved
        /\ file = FileOf(LastSaved)
        /\ n_save = Len(save_args)

\* save has returned twice, called with the same non-empty list.
C20_Witness ==
    /\ pc = "constructed"
    /\ Len(save_args) = 2
    /\ save_args[1] = save_args[2]
    /\ save_args[1] # <<>>
    /\ file = FileOf(save_args[1])

\* ------------------------------- the operations of one CheckpointManager
\* save, load and clear called in any order on one store, the store opened
\* again by a new process on the same directory and run identity.

\* The outcomes a runner hands to save for test case tc: PipelineResults,
\* with or without error and total time, or ComparisonResults.
OutcomesOf(tc) ==
    IF mode = "benchmark"
    THEN {SuccessResult(tc, "new", "ok2"),
          FailedResult(tc, "new", RunnerMaxRetries, "raise"),
          WithTotalTime(SuccessResult(tc, "new", "ok0"), TotalTime)}
    ELSE {ComparisonResult(tc, SuccessResult(tc, "new", "ok2"),
                           FailedResult(tc, "old", RunnerMaxRetries, "err"))}

StoreLists ==
    UNION {{r \in [DOMAIN l -> UNION {OutcomesOf(l[i]) : i \in DOMAIN l}] :
               \A i \in DOMAIN l : r[i] \in OutcomesOf(l[i])} :
           l \in FirstLists}

\* A store has been constructed; pc names the operation that returned last.
StoreReady == pc \in {"constructed", "saved", "save_failed", "loaded", "cleared"}

\* save(results) returns.
StoreSave(results) ==
    /\ StoreReady
    /\ Len(save_args) < MaxSaves
    /\ save_args' = Append(save_args, results)
    /\ cm_results' = results
    /\ file' = Dumped(OpenForWriting(file), results)
    /\ n_save' = n_save + 1
    /\ pc' = "saved"
    /\ UNCHANGED <<config_vars, limiter_vars, test_cases, remaining,
                   all_results, returned, task, call, n_acquire, n_execute,
                   runs, prev_how, same_cases,
                   checkpoint_dir, finished, response, executed>>

\* save(results) raises: open raises and the file is as it was, or
\* pickle.dump raises on the file open has emptied.
StoreSaveFails(results, opened) ==
    /\ StoreReady
    /\ Len(save_args) < MaxSaves
    /\ save_args' = Append(save_args, results)
    /\ cm_results' = results
    /\ file' = IF opened THEN OpenForWriting(file) ELSE file
    /\ pc' = "save_failed"
    /\ UNCHANGED <<config_vars, limiter_vars, test_cases, remaining,
                   all_results, returned, task, call, count_vars,
                   runs, prev_how, same_cases,
                   checkpoint_dir, finished, response, executed>>

\* load(): returned is the list it hands out.
StoreLoad ==
    /\ StoreReady
    /\ cm_results' = Load(file, cm_results)
    /\ returned' = cm_results'
    /\ pc' = "loaded"
    /\ UNCHANGED <<config_vars, limiter_vars, file, test_cases, remaining,
                   all_results, task, call, count_vars, hist_vars>>

\* A variant of ClearedResults: clear leaves self.results alone.
KeptResults(results) == results

\* clear: self.results = []
ClearedResults(results) == <<>>

\* clear(): the file is unlinked when it exists.
StoreClear ==
    /\ StoreReady
    /\ file' = NoFile
    /\ cm_results' = ClearedResults(cm_results)
    /\ pc' = "cleared"
    /\ UNCHANGED <<config_vars, limiter_vars, test_cases, remaining,
                   all_results, returned, task, call, count_vars, hist_vars>>

\* The process ends and a new one opens the store on the same directory and
\* run identity; prev_how is the operation the old process did last.
Reopen ==
    /\ StoreReady
    /\ prev_how' = pc
    /\ pc' = "main"
    /\ Fresh(since_last_call', lock', cm_results', remaining', all_results',
             returned', task', call', n_acquire', n_execute', n_save',
             gaps', seen')
    /\ UNCHANGED <<config_vars, file, test_cases, runs, same_cases,
                   save_args, checkpoint_dir, finished, response, executed>>

InitStore ==
    /\ Init
    /\ parallel_workers = 1
    /\ checkpoint_interval = DefaultCheckpointInterval
    /\ calls_per_minute = DefaultRateLimit
    /\ test_cases = <<>>

NextStore ==
    \/ Construct
    \/ \E results \in StoreLists : StoreSave(results)
    \/ \E results \in StoreLists, opened \in BOOLEAN :
          StoreSaveFails(results, opened)
    \/ StoreLoad
    \/ StoreClear
    \/ Reopen

SpecStore == InitStore /\ [][NextStore]_vars

\* C21 as stated: whatever save, load and clear calls came before (a save
\* that raised included), load returns the list the checkpoint file holds
\* when the file exists and the empty list when it does not.
C21_LoadReturnsPersistedOrEmpty ==
    pc = "loaded" => returned = IF file.exists THEN file.data ELSE <<>>

\* ------------------------------------ a run on a damaged checkpoint file
\* The checkpoint file of an earlier process that was cut short or damaged
\* afterwards: pickle.load raises on it, whatever it held of the outcomes of
\* the test cases.
DamagedFiles(tcs) ==
    {[exists |-> TRUE, readable |-> FALSE, data |-> d] :
        d \in {<<>>} \cup
              {<<SuccessResult(tcs[j], "new", "ok2")>> : j \in DOMAIN tcs}}

InitDamaged ==
    /\ Configured
    /\ pc = "main"
    /\ test_cases \in FirstLists
    /\ file \in DamagedFiles(test_cases)
    /\ runs = 1
    /\ prev_how = None
    /\ same_cases = FALSE
    /\ save_args = <<>>
    /\ checkpoint_dir = <<>>
    /\ finished = <<>>
    /\ response = NoResponse
    /\ executed = Absent
    /\ Fresh(since_last_call, lock, cm_results, remaining, all_results,
             returned, task, call, n_acquire, n_execute, n_save, gaps, seen)

SpecDamaged == InitDamaged /\ [][NextOneRun]_vars

\* C22: on a checkpoint file pickle.load cannot read, the store is
\* constructed and load returns without raising, load returns the empty list
\* and get_completed_ids the empty set, and the run that follows submits
\* every test case it is given and returns one outcome for each.
C22_DamagedCheckpointIsNoPriorState ==
    /\ pc = "main" => ENABLED Construct
    /\ pc = "constructed" =>
          /\ cm_results = <<>>
          /\ Load(file, cm_results) = <<>>
          /\ get_completed_ids(Load(file, cm_results)) = {}
          /\ ENABLED (RunNoop \/ RunSubmit)
    /\ pc \in {"collect", "returned"} => remaining = test_cases
    /\ pc = "returned" =>
          /\ n_execute >= Len(test_cases)
          /\ \A j \in DOMAIN test_cases :
                CountOf(returned, test_cases[j].sense_id) = 1

\* A run on a damaged file that held an outcome of one of its two test cases
\* has submitted both, executed twice and collected one outcome; the file is
\* still the damaged one.
C22_Witness ==
    /\ pc = "collect"
    /\ file.exists /\ ~file.readable /\ file.data # <<>>
    /\ Len(remaining) = 2
    /\ Len(all_results) = 1
    /\ n_execute >= 2

\* C23: when clear has returned, whatever was called before it (saves that
\* returned or raised, loads, clears, in this process or an earlier one),
\* the checkpoint file does not exist, self.results is empty, and load and
\* get_completed_ids called next return the empty list and the empty set.
C23_ClearLeavesNothing ==
    pc = "cleared" =>
        /\ ~file.exists
        /\ cm_results = <<>>
        /\ Load(file, cm_results) = <<>>
        /\ get_completed_ids(Load(file, cm_results)) = {}

\* clear has returned in a store in which one save has returned and a later
\* one has raised after emptying the file.
C23_Witness ==
    /\ pc = "cleared"
    /\ n_save = 1
    /\ Len(save_args) = 2
    /\ save_args[2] # <<>>
    /\ returned # <<>>

\* C24: load called right after save(L) has returned gives a list equal to
\* L, in the store that saved and in a store constructed afterwards by a new
\* process on the same directory and run identity (whose constructor loads
\* it, too); L holds PipelineResults or ComparisonResults.
C24_SaveLoadRoundTrip ==
    [][/\ (pc = "saved" /\ pc' = "loaded") => returned' = LastSaved
       /\ (pc = "main" /\ prev_how = "saved" /\ pc' = "constructed") =>
             cm_results' = LastSaved
       /\ (pc = "constructed" /\ prev_how = "saved" /\ pc' = "loaded") =>
             returned' = LastSaved]_vars

\* A new store has loaded the two benchmark outcomes, one of them with its
\* total time, which the process before it saved last.
C24_Witness ==
    /\ pc = "loaded"
    /\ prev_how = "saved"
    /\ n_save = 0
    /\ mode = "benchmark"
    /\ Len(returned) = 2
    /\ returned = LastSaved
    /\ file = FileOf(LastSaved)
    /\ \E i \in DOMAIN returned :
          returned[i].metadata.total_execution_time # Absent

\* ------------------------------------------------ the command line again
\* main of compare_pipelines.py and of benchmark_pipeline.py is started
\* again with --resume, on the same test data and output directory, after
\* the invocation before it has returned or was interrupted.  Both take the
\* run identity from datetime.now() to the second and neither reads
\* args.resume: the checkpoint file of the new process is the one of the
\* process before it only when both were started within the same second
\* (same_second); else it is a file that does not exist yet, and the earlier
\* file stays in the checkpoint directory.
InvokeResume(same_second) ==
    /\ pc \in {"returned", "interrupted"}
    /\ runs < MaxRuns
    /\ runs' = runs + 1
    /\ prev_how' = pc
    /\ same_cases' = TRUE
    /\ pc' = "main"
    /\ IF same_second
       THEN UNCHANGED <<file, checkpoint_dir>>
       ELSE /\ checkpoint_dir' = Append(checkpoint_dir, file)
            /\ file' = NoFile
    /\ Fresh(since_last_call', lock', cm_results', remaining', all_results',
             returned', task', call', n_acquire', n_execute', n_save',
             gaps', seen')
    /\ UNCHANGED <<config_vars, test_cases, save_args, finished, response, executed>>

NextCli ==
    \/ Tick
    \/ Construct
    \/ RunNoop
    \/ RunSubmit
    \/ \E i \in Tasks : StartTask(i)
    \/ \E i \in Tasks : WaitIfNeededDisabled(i)
    \/ \E i \in Tasks : WaitIfNeededEnter(i)
    \/ \E i \in Tasks : WaitIfNeededLeave(i)
    \/ \E i \in Tasks, s \in Sides, k \in RunKinds : Attempt(i, s, k)
    \/ \E i \in Tasks, s \in Sides : BackoffWake(i, s)
    \/ \E i \in Tasks : CompareJoin(i)
    \/ \E i \in Tasks : Collect(i)
    \/ Finish
    \/ Interrupt
    \/ \E same_second \in BOOLEAN : InvokeResume(same_second)

\* One worker is enough to tell a resumed run from one that starts over.
InitCli == Init /\ parallel_workers = 1

SpecCli == InitCli /\ [][NextCli]_vars

\* The checkpoint file the first invocation left behind, as the second
\* invocation finds the directory before it has saved anything itself.
EarlierCheckpoint ==
    IF checkpoint_dir = <<>> THEN file ELSE checkpoint_dir[1]

\* C25 as stated: an invocation started with --resume after an interrupted
\* invocation on the same output directory submits for execution no test
\* case whose outcome is in the checkpoint the interrupted invocation left.
C25_ResumeFlagResumes ==
    [][(runs = 2 /\ prev_how = "interrupted" /\ pc = "constructed"
            /\ pc' = "collect") =>
        \A i \in DOMAIN remaining' :
            remaining'[i].sense_id \notin OutcomeIds(EarlierCheckpoint.data)]_vars

\* ------------------------------------------- a run whose saves can raise
\* One iteration of the as_completed loop in which the periodic save raises
\* (open raises, or pickle.dump raises on the file open has emptied): the
\* result has been appended and self.results assigned, the except clause of
\* the loop body prints the error and the loop goes on.
CollectSaveFails(i, opened) ==
    /\ pc = "collect"
    /\ task[i].st = "done"
    /\ all_results' = Append(all_results, task[i].result)
    /\ PeriodicSaveDue(Len(all_results'))
    /\ cm_results' = all_results'
    /\ task' = Yielded(i)
    /\ call' = [call EXCEPT ![i] = Consumed(i)]
    /\ file' = IF opened THEN OpenForWriting(file) ELSE file
    /\ UNCHANGED <<config_vars, limiter_vars, pc, test_cases, remaining,
                   returned, count_vars, hist_vars>>

\* The final save raises: it is outside the try of the loop, the exception
\* leaves run and nothing is returned.
FinishSaveFails(opened) ==
    /\ pc = "collect"
    /\ \A i \in Tasks : task[i].st = "collected"
    /\ cm_results' = all_results
    /\ file' = IF opened THEN OpenForWriting(file) ELSE file
    /\ pc' = "failed"
    /\ UNCHANGED <<config_vars, limiter_vars, test_cases, remaining,
                   all_results, returned, task, call, count_vars, hist_vars>>

NextWriteFails ==
    \/ Tick
    \/ Construct
    \/ RunNoop
    \/ RunSubmit
    \/ \E i \in Tasks : StartTask(i)
    \/ \E i \in Tasks : WaitIfNeededDisabled(i)
    \/ \E i \in Tasks : WaitIfNeededEnter(i)
    \/ \E i \in Tasks : WaitIfNeededLeave(i)
    \/ \E i \in Tasks, s \in Sides, k \in RunKinds : Attempt(i, s, k)
    \/ \E i \in Tasks, s \in Sides : BackoffWake(i, s)
    \/ \E i \in Tasks : CompareJoin(i)
    \/ \E i \in Tasks : Collect(i)
    \/ \E i \in Tasks, opened \in BOOLEAN : CollectSaveFails(i, opened)
    \/ Finish
    \/ \E opened \in BOOLEAN : FinishSaveFails(opened)

SpecWriteFails == Init /\ [][NextWriteFails]_vars

\* C26 as stated: a save that raises, periodic or final, ends the run with
\* that failure: the step in which a due save does not complete leaves the
\* run failed, not collecting.
C26_SaveFailureIsFatal ==
    [][/\ (pc = "collect" /\ Len(all_results') > Len(all_results)
              /\ PeriodicSaveDue(Len(all_results')) /\ n_save' = n_save) =>
            pc' = "failed"
       /\ (pc = "collect" /\ pc' # "collect") =>
            (n_save' = n_save + 1 \/ pc' = "failed")]_vars

\* ------------------------------------------- as_completed taken alone
\* concurrent.futures: a future is finished when the worker that ran it has
\* set its result, which tells the waiter of as_completed, if one is
\* installed; as_completed first yields the futures that were finished when
\* it was called, a set in no particular order, and then the others in the
\* order in which they told its waiter.
Range(s) == {s[n] : n \in DOMAIN s}

\* Where as_completed was called in the order of finishing.
CalledAt == CHOOSE n \in DOMAIN finished : finished[n] = 0

\* The worker sets the result of the future of task i.
SetResult(i) ==
    /\ pc = "collect"
    /\ task[i].st = "done"
    /\ i \notin Range(finished)
    /\ finished' = Append(finished, i)
    /\ UNCHANGED <<config_vars, limiter_vars, store_vars, main_vars, task,
                   call, count_vars, runs, prev_how, same_cases, save_args,
                   checkpoint_dir, response, executed>>

\* The main thread has submitted every task and calls as_completed.
AsCompleted ==
    /\ pc = "collect"
    /\ 0 \notin Range(finished)
    /\ finished' = Append(finished, 0)
    /\ UNCHANGED <<config_vars, limiter_vars, store_vars, main_vars, task,
                   call, count_vars, runs, prev_how, same_cases, save_args,
                   checkpoint_dir, response, executed>>

\* A variant of YieldsNext: any finished future may be yielded next.
YieldsAnyFinished(i) == 0 \in Range(finished) /\ i \in Range(finished)

\* The future of task i is the one as_completed yields next.
YieldsNext(i) ==
    /\ 0 \in Range(finished)
    /\ LET found == {finished[n] : n \in 1..(CalledAt - 1)}
           waiting == {j \in found : task[j].st = "done"}
       IN  IF waiting # {}
           THEN i \in waiting
           ELSE \E n \in (CalledAt + 1)..Len(finished) :
                   /\ finished[n] = i
                   /\ \A q \in (CalledAt + 1)..(n - 1) :
                         task[finished[q]].st = "collected"

\* One iteration of the loop over as_completed.
CollectNext(i) == YieldsNext(i) /\ Collect(i)

NextOrder ==
    \/ Tick
    \/ Construct
    \/ RunNoop
    \/ RunSubmit
    \/ \E i \in Tasks : StartTask(i)
    \/ \E i \in Tasks : WaitIfNeededDisabled(i)
    \/ \E i \in Tasks : WaitIfNeededEnter(i)
    \/ \E i \in Tasks : WaitIfNeededLeave(i)
    \/ \E i \in Tasks, s \in Sides, k \in RunKinds : Attempt(i, s, k)
    \/ \E i \in Tasks, s \in Sides : BackoffWake(i, s)
    \/ \E i \in Tasks : CompareJoin(i)
    \/ \E i \in Tasks : SetResult(i)
    \/ AsCompleted
    \/ \E i \in Tasks : CollectNext(i)
    \/ Finish

SpecOrder == Init /\ [][NextOrder]_vars

\* The place in all_results of the outcome of task i, once collected.
PlaceOf(i) ==
    CHOOSE p \in DOMAIN all_results :
        all_results[p].test_case.sense_id = remaining[i].sense_id

\* Task finished[a] finished before task finished[b], and both outcomes have
\* been appended.
FinishedBeforeAndCollected(a, b) ==
    /\ a < b
    /\ finished[a] # 0 /\ finished[b] # 0
    /\ task[finished[a]].st = "collected"
    /\ task[finished[b]].st = "collected"

\* C27 as stated: whenever task A finishes before task B, the outcome of A
\* precedes the outcome of B in all_results (and so in the returned list).
C27_CompletionOrder ==
    pc \in {"collect", "returned"} =>
        \A a, b \in DOMAIN finished :
            FinishedBeforeAndCollected(a, b) =>
                PlaceOf(finished[a]) < PlaceOf(finished[b])

\* C27, amended: whenever task A finishes before task B and B finishes after
\* the collection loop has called as_completed, the outcome of A precedes
\* the outcome of B in all_results, whatever their order in the input list.
C27_CompletionOrderOnceCollecting ==
    pc \in {"collect", "returned"} =>
        \A a, b \in DOMAIN finished :
            (FinishedBeforeAndCollected(a, b) /\ CalledAt < b) =>
                PlaceOf(finished[a]) < PlaceOf(finished[b])

\* The second task of the input list finished first, the first after it,
\* both after as_completed was called; their outcomes are in that order.
C27_Witness ==
    /\ pc = "collect"
    /\ finished = <<0, 2, 1>>
    /\ Len(all_results) = 2
    /\ all_results[1].test_case = remaining[2]
    /\ all_results[2].test_case = remaining[1]

\* ------------------------------------ a task that raises past its wrapper
\* What the future of a task holds when _execute_single or _compare_single
\* has raised instead of returning: the exception.
Raised == [raised |-> TRUE]

\* The task wrapper raises while it runs (a defect, or an exception that is
\* not an Exception of the call): the future is done and holds the
\* exception, the frames of the task are gone.
TaskRaise(i) ==
    /\ pc = "collect"
    /\ task[i].st = "exec"
    /\ task' = [task EXCEPT ![i].st = "done", ![i].result = Raised]
    /\ call' = [call EXCEPT ![i] = Consumed(i)]
    /\ UNCHANGED <<config_vars, limiter_vars, store_vars, main_vars,
                   count_vars, hist_vars>>

\* One iteration of the as_completed loop for a future that holds a result.
CollectResult(i) == task[i].result # Raised /\ Collect(i)

\* A variant of Handled in which the future that raised is never done with.
HandledNever(i) == task

\* as_completed has yielded the future that raised, once.
Handled(i) == [task EXCEPT ![i].st = "collected"]

\* One iteration of the as_completed loop for a future that holds an
\* exception: future.result() raises it, the except clause of the loop body
\* prints it; nothing is appended and nothing saved.
CollectRaised(i) ==
    /\ pc = "collect"
    /\ task[i].st = "done"
    /\ task[i].result = Raised
    /\ task' = Handled(i)
    /\ UNCHANGED <<config_vars, limiter_vars, store_vars, main_vars, call,
                   count_vars, hist_vars>>

NextTaskRaises ==
    \/ Tick
    \/ Construct
    \/ RunNoop
    \/ RunSubmit
    \/ \E i \in Tasks : StartTask(i)
    \/ \E i \in Tasks : WaitIfNeededDisabled(i)
    \/ \E i \in Tasks : WaitIfNeededEnter(i)
    \/ \E i \in Tasks : WaitIfNeededLeave(i)
    \/ \E i \in Tasks, s \in Sides, k \in RunKinds : Attempt(i, s, k)
    \/ \E i \in Tasks, s \in Sides : BackoffWake(i, s)
    \/ \E i \in Tasks : CompareJoin(i)
    \/ \E i \in Tasks : TaskRaise(i)
    \/ \E i \in Tasks : CollectResult(i)
    \/ \E i \in Tasks : CollectRaised(i)
    \/ Finish

\* The threads keep running and the sleeps end.
SpecTaskRaises == Init /\ [][NextTaskRaises]_vars /\ WF_vars(NextTaskRaises)

\* The tasks of the run whose wrapper raised.
RaisedTasks == {i \in Tasks : task[i].result = Raised}

\* run has returned; the returned list, which the final save has written,
\* has no outcome for a task that raised and one resolved outcome, for its
\* own test case, for every other task.
ReturnedAllButRaised ==
    /\ pc = "returned"
    /\ Len(returned) = Cardinality(Tasks \ RaisedTasks)
    /\ OutcomeIds(file.data) = OutcomeIds(returned)
    /\ AllResolved(returned)
    /\ \A i \in Tasks :
          CountOf(returned, remaining[i].sense_id) =
              IF i \in RaisedTasks THEN 0 ELSE 1

\* C28: when task wrappers raise, the loop catches each exception where it
\* collects the future: nothing is appended for that test case, the outcome
\* of every other test case is appended, and the run goes on to the final
\* save and returns.
C28_RaisedTaskIsSkipped == <>ReturnedAllButRaised

\* Of two tasks the first has raised and the second has returned a result;
\* run has returned the one outcome.
C28_Witness ==
    /\ pc = "returned"
    /\ Len(remaining) = 2
    /\ RaisedTasks = {1}
    /\ Len(returned) = 1
    /\ returned[1].test_case = remaining[2]
    /\ n_save >= 1

\* The frame of a call of _execute_with_retry after execute has returned or
\* raised (k) in the attempt frame c is about to make for test case tc.
AfterCall(tc, s, c, k) ==
    LET f == [c EXCEPT !.calls = @ + 1,
                       !.fails = IF k \in FailKinds THEN @ + 1 ELSE @,
                       !.last = k]
    IN  IF k \notin FailKinds
        THEN [f EXCEPT !.st = "ret", !.result = SuccessResult(tc, s, k)]
        ELSE IF c.attempt = max_retries - 1
        THEN [f EXCEPT !.st = "ret",
                       !.result = FailedResult(tc, s, max_retries, k)]
        ELSE [f EXCEPT !.st = "sleep", !.left = Pow2(c.attempt)]

\* What a step can make of frame c of side s for test case tc, given only
\* the frame itself, what its own executor does and the passing of time.
OwnSteps(tc, s, c) ==
    {c, [c EXCEPT !.left = Elapse(@)]}
    \cup (IF c.st = "ready" /\ c.attempt < max_retries
          THEN {AfterCall(tc, s, c, k) : k \in CallKinds}
          ELSE {})
    \cup (IF c.st = "ready" /\ c.attempt >= max_retries
          THEN {[c EXCEPT !.st = "ret", !.result = NoneValue]}
          ELSE {})
    \cup (IF c.st = "sleep" /\ c.left = 0
          THEN {[c EXCEPT !.st = "ready", !.attempt = @ + 1]}
          ELSE {})

\* C29: in every step the frame of the new call (its attempt number, calls
\* made, sleep and result) becomes what its own state, its own executor's
\* behaviour and the clock make of it, whatever the frame of the old call is
\* and does in the same step, and the same holds for the old call.
C29_SidesDoNotInterfere ==
    [][\A i \in Tasks, s \in Sides :
          call'[i][s] \in OwnSteps(remaining[i], s, call[i][s])]_vars

\* _compare_single: the old call has failed for good after three attempts;
\* the new call, which failed once, has retried and returned a success.
C29_Witness ==
    /\ mode = "compare"
    /\ max_retries = 3
    /\ \E i \in Tasks :
          /\ call[i]["old"].st = "ret"
          /\ call[i]["old"].fails = 3
          /\ call[i]["new"].st = "ret"
          /\ call[i]["new"].fails = 1
          /\ call[i]["new"].calls = 2
          /\ call[i]["new"].result = SuccessResult(remaining[i], "new", "ok2")

\* C30: a failed attempt i (0-based) that is not the final one is followed
\* by a sleep of 2^i seconds, which only the passing of time shortens and
\* after which attempt i + 1 is made; a call that is about to make an
\* attempt is not sleeping, and after a success or after the final failed
\* attempt the call returns without sleeping.
C30_BackoffIsExponential ==
    [][\A i \in Tasks, s \in Sides :
          LET c == call[i][s]
              d == call'[i][s]
          IN  /\ c.st \in {"ready", "ret"} => c.left = 0
              /\ c.st = "sleep" =>
                    /\ c.attempt < max_retries - 1
                    /\ c.fails = c.attempt + 1
                    /\ c.left <= Pow2(c.attempt)
              /\ (c.st = "ready" /\ d.calls = c.calls + 1) =>
                    IF d.last \in FailKinds /\ c.attempt < max_retries - 1
                    THEN d.st = "sleep" /\ d.left = Pow2(c.attempt)
                    ELSE d.st = "ret" /\ d.left = 0
              /\ (c.st = "sleep" /\ d # c) =>
                    IF c.left > 0
                    THEN d = [c EXCEPT !.left = c.left - 1]
                    ELSE d = [c EXCEPT !.st = "ready",
                                       !.attempt = c.attempt + 1]
              /\ c.st = "ret" => d = c]_vars

\* An always-failing call with max_retries = 3 has slept one second after
\* its first attempt and is in the first of the two seconds it sleeps after
\* its second attempt.
C30_Witness ==
    /\ max_retries = 3
    /\ \E i \in Tasks, s \in Sides :
          /\ call[i][s].st = "sleep"
          /\ call[i][s].attempt = 1
          /\ call[i][s].fails = 2
          /\ call[i][s].left = 2

\* C31: the call of execute that fails in the final attempt makes
\* _execute_with_retry return a PipelineResult for the test case it was
\* given, with no quotations, metadata error_type the type of that attempt's
\* exception and error "Failed after max_retries attempts: " followed by that
\* attempt's message, whatever the attempts before it failed with.
C31_FailureResultOfLastAttempt ==
    [][\A i \in Tasks, s \in Sides :
          LET c == call[i][s]
              d == call'[i][s]
          IN  (c.st = "ready" /\ d.st = "ret" /\ d.calls = c.calls + 1
                  /\ d.last \in FailKinds) =>
                /\ d.fails = max_retries
                /\ d.result.test_case = remaining[i]
                /\ d.result.pipeline_name = s
                /\ d.result.quotations = 0
                /\ d.result.metadata.error_type = ErrorType(d.last)
                /\ d.result.error =
                      <<"Failed after", max_retries, "attempts:",
                        ErrorText(d.last)>>]_vars

\* A call with max_retries = 3 has returned after three failed attempts, the
\* final one by raising: the result reports the ConnectionError.
C31_Witness ==
    /\ max_retries = 3
    /\ \E c \in ReturnedCalls :
          /\ call[c[1]][c[2]].fails = 3
          /\ call[c[1]][c[2]].last = "raise"
          /\ call[c[1]][c[2]].result.metadata.error_type = "ConnectionError"
          /\ call[c[1]][c[2]].result.quotations = 0

\* C32: an attempt has failed exactly when execute raised or returned a
\* result with error set; after either, the call goes on in the same way
\* (one more failure counted, the same sleep before the next attempt or the
\* return after the final one); a result with no quotations and no error is
\* a success, returned as it is in the attempt that got it.
C32_FailedIffRaisedOrError ==
    [][\A i \in Tasks, s \in Sides :
          LET c == call[i][s]
              d == call'[i][s]
          IN  (c.st = "ready" /\ d.calls = c.calls + 1) =>
                IF d.last \in {"err", "raise"}
                THEN /\ d.fails = c.fails + 1
                     /\ d.st = IF c.attempt = max_retries - 1
                               THEN "ret" ELSE "sleep"
                     /\ d.left = IF c.attempt = max_retries - 1
                                 THEN 0 ELSE Pow2(c.attempt)
                     /\ d.attempt = c.attempt
                ELSE /\ d.last \in {"ok2", "ok0"}
                     /\ d.fails = c.fails
                     /\ d.st = "ret"
                     /\ d.left = 0
                     /\ d.result = SuccessResult(remaining[i], s, d.last)
                     /\ d.result.error = Absent
                     /\ d.last = "ok0" => d.result.quotations = 0]_vars

\* A call has returned from its first attempt the result without quotations
\* and without error that execute returned.
C32_Witness ==
    /\ max_retries >= 2
    /\ \E c \in ReturnedCalls :
          /\ call[c[1]][c[2]].calls = 1
          /\ call[c[1]][c[2]].fails = 0
          /\ call[c[1]][c[2]].last = "ok0"
          /\ call[c[1]][c[2]].result.quotations = 0
          /\ call[c[1]][c[2]].result.error = Absent

\* The moves of the future of one test case: submitted and queued (Pending),
\* in wait_if_needed, before and after taking the lock (Rate-Limited-Wait),
\* in _execute_with_retry (In-Flight), done with a result that has no error
\* (Succeeded) or has one (Failed-Final), and the same once collected.
TaskMoves ==
    {<<"queued", "limiter">>, <<"limiter", "locked">>, <<"limiter", "exec">>,
     <<"locked", "exec">>, <<"exec", "done">>, <<"done", "collected">>}

\* C33: the future of a test case moves only along Pending,
\* Rate-Limited-Wait, In-Flight and then Succeeded or Failed-Final: every
\* task that has left the queue has called wait_if_needed exactly once, no
\* call of execute is made for a test case before its wait_if_needed has
\* returned, and a task that is done keeps its result until it is collected
\* and stays collected.
C33_TaskStateMachine ==
    [][/\ pc' = "collect" =>
             n_acquire' =
                 Cardinality({j \in DOMAIN task' : task'[j].st # "queued"})
       /\ (pc = "collect" /\ pc' = "collect") =>
             \A i \in Tasks :
                /\ task'[i].st = task[i].st
                      \/ <<task[i].st, task'[i].st>> \in TaskMoves
                /\ task'[i].st \in {"queued", "limiter", "locked"} =>
                      \A s \in Sides : call'[i][s] = IdleCall
                /\ (\E s \in Sides : call'[i][s].calls > call[i][s].calls) =>
                      task[i].st = "exec"
                /\ (task[i].st = "done" /\ task'[i].st = "done") =>
                      task'[i].result = task[i].result]_vars

\* Of two tasks the first has been collected and the second, whose
\* wait_if_needed sleeps, has made no call yet.
C33_Witness ==
    /\ pc = "collect"
    /\ Len(remaining) = 2
    /\ task[1].st = "collected"
    /\ task[2].st = "locked"
    /\ task[2].left > 0
    /\ n_acquire = 2
    /\ n_execute >= 1

\* The tasks that hold a worker: in wait_if_needed or in _execute_with_retry
\* (or, in _compare_single, waiting for its two calls).
Occupying == {i \in Tasks : task[i].st \in {"limiter", "locked", "exec"}}

\* The calls of _execute_with_retry that have not returned: about to call
\* execute, or asleep between two attempts.
ActiveCalls ==
    {c \in Tasks \X Sides : call[c[1]][c[2]].st \in {"ready", "sleep"}}

\* C34: at every moment at most parallel_workers tasks are in wait_if_needed
\* or in flight, a task asleep in the limiter or between two attempts
\* included; so at most parallel_workers calls of _execute_with_retry are
\* under way in a benchmark run and at most twice as many in a comparison.
C34_AtMostWorkersInFlight ==
    pc = "collect" =>
        /\ Cardinality(Occupying) <= parallel_workers
        /\ \A c \in ActiveCalls : c[1] \in Occupying
        /\ Cardinality(ActiveCalls) <=
              IF mode = "benchmark" THEN parallel_workers
              ELSE 2 * parallel_workers

\* With one worker, the first of two tasks sleeps between two attempts and
\* the second is still queued and cannot start.
C34_Witness ==
    /\ pc = "collect"
    /\ parallel_workers = 1
    /\ Len(remaining) = 2
    /\ task[1].st = "exec"
    /\ call[1]["new"].st = "sleep"
    /\ call[1]["new"].left > 0
    /\ task[2].st = "queued"
    /\ ~ENABLED StartTask(2)

\* C35: the store's list belongs to the store: when the collection loop
\* appends an outcome to all_results and no store operation (save) is
\* called, neither the store's results nor get_completed_ids changes.
C35_StoreListOwnedByStore ==
    [][(/\ pc = "collect"
        /\ pc' = "collect"
        /\ Len(all_results') = Len(all_results) + 1
        /\ n_save' = n_save)
       => /\ cm_results' = cm_results
          /\ get_completed_ids(cm_results') = get_completed_ids(cm_results)
      ]_vars

\* a is an initial part of b.
IsPrefixOf(a, b) == Len(a) <= Len(b) /\ SubSeq(b, 1, Len(a)) = a

\* The list a reader finds in the checkpoint file.
DurableList == IF file.exists /\ file.readable THEN file.data ELSE <<>>

\* C36: every save of a run is given the whole of all_results, and the list
\* it writes starts with the list that was in the file before; so the stored
\* checkpoint never gets shorter and never loses an outcome during a run.
C36_SavedListExtendsDurable ==
    [][/\ file' # file => (pc = "collect" /\ n_save' = n_save + 1)
       /\ (pc = "collect" /\ n_save' > n_save) =>
          /\ n_save' = n_save + 1
          /\ file'.exists /\ file'.readable
          /\ Len(file'.data) = Len(all_results')
          /\ file' \in {FileOf(all_results), FileOf(all_results')}
          /\ IsPrefixOf(DurableList, file'.data)
          /\ get_completed_ids(DurableList) \subseteq get_completed_ids(file'.data)
      ]_vars

\* A second run has loaded one stored outcome and has saved it again followed
\* by the outcome of the case that remained.
C36_Witness ==
    /\ runs = 2
    /\ Len(remaining) = 1
    /\ n_save >= 1
    /\ Len(file.data) = 2
    /\ file.data[1].test_case # remaining[1]
    /\ file.data[2].test_case = remaining[1]

\* C37: between two iterations of the collection loop, with a checkpoint
\* interval of at least 1 and saves that complete, all_results holds fewer
\* than checkpoint_interval outcomes beyond those in the checkpoint file.
C37_UnsavedBelowInterval ==
    (pc = "collect" /\ checkpoint_interval >= 1) =>
        /\ IsPrefixOf(DurableList, FileOf(all_results).data)
        /\ Len(all_results) - Len(DurableList) < checkpoint_interval

\* With an interval of 2, one outcome has been collected and none is in the
\* file yet: an interrupt now loses it.
C37_Witness ==
    /\ pc = "collect"
    /\ checkpoint_interval = 2
    /\ Len(remaining) = 2
    /\ Len(all_results) = 1
    /\ DurableList = <<>>
    /\ \E i \in Tasks : task[i].st = "collected"
    /\ ENABLED Interrupt

\* o is the outcome r: every field equal, but for the total execution time
\* that SinglePipelineRunner writes into the metadata of what it returns.
SameOutcome(o, r) ==
    IF mode = "compare" THEN o = r
    ELSE [o EXCEPT !.metadata.total_execution_time = Absent]
            = [r EXCEPT !.metadata.total_execution_time = Absent]

\* The list returned is the list given, outcome by outcome.
SameOutcomes(os, rs) ==
    /\ Len(os) = Len(rs)
    /\ \A i \in DOMAIN os : SameOutcome(os[i], rs[i])

\* C38: a run neither drops nor reorders the outcomes it loaded: all_results
\* starts as the list in the checkpoint file, outcomes of test cases not in
\* the input list included; the collection loop only appends outcomes of the
\* remaining test cases behind it; and run returns that list, outcome by
\* outcome in the same order (a run with nothing remaining returns the loaded
\* list).
C38_LoadedOutcomesKeptInOrder ==
    [][/\ (pc = "constructed" /\ pc' = "collect") =>
              all_results' = DurableList
       /\ (pc = "collect" /\ pc' = "collect") =>
              \/ all_results' = all_results
              \/ \E i \in Tasks :
                    /\ all_results' = Append(all_results, task[i].result)
                    /\ task[i].result.test_case = remaining[i]
       /\ (pc = "collect" /\ pc' = "returned") =>
              SameOutcomes(returned', all_results)
       /\ (pc = "constructed" /\ pc' = "returned") =>
              SameOutcomes(returned', DurableList)
      ]_vars

\* A second run, given a test case other than the one whose outcome is in the
\* checkpoint, has returned the stored outcome followed by the new one.
C38_Witness ==
    /\ pc = "returned"
    /\ runs = 2
    /\ Len(test_cases) = 1
    /\ remaining = test_cases
    /\ Len(returned) = 2
    /\ returned[1].test_case.sense_id # test_cases[1].sense_id
    /\ returned[2].test_case = test_cases[1]
    /\ SameOutcome(returned[1], file.data[1])

\* The calls of execute one run can make at most: max_retries for each
\* remaining test case and pipeline.
MostCalls ==
    max_retries * Len(remaining) * (IF mode = "compare" THEN 2 ELSE 1)

\* C39: with calls of execute that return or raise, and threads that keep
\* running, every wait_if_needed returns, every remaining test case gets its
\* result, and run returns, having called execute at most max_retries times
\* for each test case and pipeline.
C39_RunTerminates ==
    /\ [](\A i \in Tasks, s \in Sides : call[i][s].calls <= max_retries)
    /\ [](n_execute <= MostCalls)
    /\ \A i \in 1..MaxCases :
          (i \in Tasks /\ task[i].st \in {"limiter", "locked"})
              ~> (i \in Tasks /\ task[i].st = "exec")
    /\ \A i \in 1..MaxCases :
          (i \in Tasks /\ task[i].st = "queued")
              ~> (i \in Tasks /\ task[i].st = "done")
    /\ <>(pc = "returned")

\* A comparison of two test cases in which every call failed has returned:
\* both tasks went through the limiter, and execute was called max_retries
\* times for each test case and side.
C39_Witness ==
    /\ pc = "returned"
    /\ mode = "compare"
    /\ min_interval > 0
    /\ Len(remaining) = 2
    /\ n_acquire = 2
    /\ n_execute = MostCalls
    /\ n_execute = 4 * RunnerMaxRetries
    /\ Len(returned) = 2

\* ------------------------------------ DeepsetPipelineExecutor.execute alone
\* The longest text of an errors field tried, in pieces.
MaxErrorPieces == 3

ErrorTexts == UNION {[1..n -> ErrorPieces] : n \in 0..MaxErrorPieces}

\* What session.post can bring back: a response with a status of 400 or
\* more, no response (a timeout), a body that is not JSON, or a JSON object
\* with or without an errors field, whose results hold no quotation, two
\* quotations, or something the extraction cannot walk through.
Responses ==
    {r \in [transport : {"ok", "http_error", "timeout", "not_json"},
            has_errors : BOOLEAN,
            errors : ErrorTexts,
            body : {"empty", "two", "malformed"}] :
        /\ ~r.has_errors => r.errors = <<>>
        /\ r.transport # "ok" => (~r.has_errors /\ r.body = "empty")}

\* session.post returns or raises.
SessionPost(r) ==
    /\ response = NoResponse
    /\ response' = r
    /\ UNCHANGED <<config_vars, limiter_vars, store_vars, main_vars, task,
                   call, count_vars, runs, prev_how, same_cases, save_args,
                   checkpoint_dir, finished, executed>>

\* execute returns its PipelineResult.
ExecuteReturns ==
    /\ response # NoResponse
    /\ executed = Absent
    /\ executed' = Execute(test_cases[1], response)
    /\ UNCHANGED <<config_vars, limiter_vars, store_vars, main_vars, task,
                   call, count_vars, runs, prev_how, same_cases, save_args,
                   checkpoint_dir, finished, response>>

InitExecute ==
    /\ Init
    /\ mode = "benchmark"
    /\ parallel_workers = 1
    /\ checkpoint_interval = 1
    /\ calls_per_minute = 0
    /\ Len(test_cases) = 1

NextExecute ==
    \/ \E r \in Responses : SessionPost(r)
    \/ ExecuteReturns

SpecExecute == InitExecute /\ [][NextExecute]_vars

\* The result execute returns for a formatter error.
IsFormatterErrorResult(o) ==
    /\ o.quotations = 0
    /\ o.metadata.error_type = "formatter_error"
    /\ o.error # Absent
    /\ o.error[1] = "FORMATTER_ERROR: "

\* C40: when the post succeeded, the body could be read, and the errors
\* field holds 'number of selections in the JSON does not match' or
\* 'int() argument must be a string', execute returns a result with no
\* quotations, metadata error_type 'formatter_error' and an error starting
\* with 'FORMATTER_ERROR: '.
C40_FormatterErrorClassified ==
    (/\ executed # Absent
     /\ response.transport = "ok"
     /\ response.body # "malformed"
     /\ response.has_errors
     /\ \/ Contains(response.errors, SelectionsPattern)
        \/ Contains(response.errors, IntArgumentPattern))
    => IsFormatterErrorResult(executed)

====
